---- MODULE Spec2Model ----
(***************************************************************************)
(* Model of the tsctl state engine (backend/src/tsctl/state.py) and of the *)
(* organization fan-out of the API facade (backend/src/api/app.py).        *)
(*                                                                         *)
(* Modelling conventions                                                   *)
(*  - An ID is a record [n, lo]: n stands for the UUID text, lo says       *)
(*    whether the text ends with the local-only postfix                    *)
(*    (str(uuid4()) + self._postfix).  uuid4() is a draw of a fresh n.     *)
(*  - A Python dict is a sequence of entries in insertion order (push      *)
(*    iterates list(dict)); a directory is a function from the names of    *)
(*    its children to their contents (os.listdir has no order).            *)
(*  - A name is a sequence of tokens; name += postfix is concatenation.    *)
(*  - ruleset payloads handed to create_ruleset/update_ruleset are well    *)
(*    formed: a new ruleset lists no rule, an update keeps the persisted   *)
(*    ruleIds and changes the name.                                        *)
(*  - read_json of a missing file raises (FileNotFoundError); write_json   *)
(*    replaces the document.  A remote call either returns ("ok") or       *)
(*    raises URLError; a call that addresses a ruleset or a rule the       *)
(*    platform does not hold can only raise.                               *)
(*  - edits counts the engine operations of a run and MaxEdits bounds it;  *)
(*    pushes and refreshes are not counted.                                *)
(*  - last records the operation that ran last, its arguments and what it  *)
(*    returned, for the properties to refer to.                            *)
(*                                                                         *)
(* Spec runs the engine, push and refresh on one organization; SpecCrash   *)
(* adds refreshes that are cut short; SpecPool runs the pushes of several  *)
(* organizations on the worker pool; SpecCopy runs the creations and the   *)
(* copies, within the organization and into another one; SpecState drives  *)
(* the primitives of the state file on their own; SpecQuery runs the       *)
(* listings beside refreshes that stop early; SpecAnswered runs the engine *)
(* and pushes whose calls may also return a document with an errors key    *)
(* ("errors"); SpecPushCut adds pushes that end before the state file is   *)
(* written; SpecList runs the pushes of one request list, which may name   *)
(* an organization twice; SpecWrites takes deleteRule write by write;      *)
(* SpecEager runs the engine with lazy_eval false; SpecLazy starts with    *)
(* the other organization's directory absent; SpecNames takes the name     *)
(* loop of the creating operations turn by turn, under weak fairness.      *)
(***************************************************************************)
EXTENDS Integers, Sequences, FiniteSets, TLC

VARIABLES disk, stateFile, remote, nextLocal, nextRemote, edits, pool, last

vars == <<disk, stateFile, remote, nextLocal, nextRemote, edits, pool, last>>

(***************************************************************************)
(* Bounds of the model.                                                    *)
(***************************************************************************)
\* number of uuid4() draws the model allows
MaxLocal == 2
\* number of IDs the remote platform may assign
MaxRemote == 2
\* number of engine operations the model allows in one run
MaxEdits == 3

\* REMOTE_THREAD_CT, the size of the worker pool of the fan-out
PoolSize == 2

\* number of uuid4() draws the model allows in the runs of the copies
MaxCopyIds == 4

Orgs == {"o1", "o2", "o3"}

\* the organization the engine of the single-organization runs is bound to
Workspace == "o1"

\* ------------------------------------------------------------------ IDs
\* an ID drawn without the local-only postfix
LocalIdPlain(n) == [n |-> n, lo |-> FALSE]

LocalId(n) == [n |-> n, lo |-> TRUE]

RemoteId(n) == [n |-> n, lo |-> FALSE]

\* rule_id.endswith(self._postfix)
EndsWithPostfix(id) == id.lo

\* --------------------------------------------------- generic containers
EmptyFn == [x \in {} |-> x]

\* a dict as an explicit table of its items
Items(f) == f @@ EmptyFn

FnRemove(f, k) == Items([x \in (DOMAIN f) \ {k} |-> f[x]])

FnPut(f, k, v) == Items([x \in (DOMAIN f) \cup {k} |-> IF x = k THEN v ELSE f[x]])

\* move the child `from` of a directory to the name `to`
FnRename(f, from, to) == FnPut(FnRemove(f, from), to, f[from])

\* ordered dict: sequence of records with an id field
Keys(d) == {d[i].id : i \in DOMAIN d}

RECURSIVE KeyList(_)
KeyList(d) == IF d = <<>> THEN <<>> ELSE <<Head(d).id>> \o KeyList(Tail(d))

Has(d, k) == k \in Keys(d)

IdxOf(d, k) == CHOOSE i \in DOMAIN d : d[i].id = k

Get(d, k) == d[IdxOf(d, k)]

\* d.pop(k)
Pop(d, k) == SelectSeq(d, LAMBDA e : e.id # k)

\* d[k] = e : in place when the key exists, appended otherwise
Put(d, e) == IF Has(d, e.id) THEN [d EXCEPT ![IdxOf(d, e.id)] = e] ELSE Append(d, e)

\* list.remove(x): the first occurrence
RECURSIVE ListRemove(_, _)
ListRemove(s, x) ==
    IF s = <<>> THEN <<>>
    ELSE IF Head(s) = x THEN Tail(s)
    ELSE <<Head(s)>> \o ListRemove(Tail(s), x)

InList(s, x) == \E i \in DOMAIN s : s[i] = x

\* the elements of a finite set of IDs as a list (an order os.listdir or the
\* remote may return them in)
RECURSIVE SetToSeq(_)
SetToSeq(S) ==
    IF S = {} THEN <<>>
    ELSE LET x == CHOOSE y \in S : \A z \in S :
                      \/ y.n < z.n
                      \/ (y.n = z.n /\ (y.lo => z.lo))
         IN <<x>> \o SetToSeq(S \ {x})

\* ------------------------------------------------------- the state file
Absent == [present |-> FALSE, rs |-> <<>>]

RsEntry(id, modified, ruleIds) == [id |-> id, modified |-> modified, ruleIds |-> ruleIds]

RuleEntry(id, status) == [id |-> id, status |-> status]

\* State._state_add_organization
StateAddOrganization(sf, o) ==
    IF sf[o].present THEN sf ELSE [sf EXCEPT ![o] = [present |-> TRUE, rs |-> <<>>]]

\* State._state_delete_organization
StateDeleteOrganization(sf, o) == [sf EXCEPT ![o] = Absent]

\* Results of the primitives that may raise: [sf, raised]
Ok(sf) == [sf |-> sf, raised |-> FALSE]

Raise(sf) == [sf |-> sf, raised |-> TRUE]

\* an addition that sets the status given, whatever the entry holds
StateAddRulesetAnyway(sf, o, rsid, action) ==
    Ok([sf EXCEPT ![o] = [present |-> TRUE,
                          rs |-> Put(sf[o].rs,
                                     RsEntry(rsid, action,
                                             IF Has(sf[o].rs, rsid)
                                             THEN Get(sf[o].rs, rsid).ruleIds ELSE <<>>))]])

\* State._state_add_ruleset
StateAddRuleset(sf, o, rsid, action) ==
    IF sf[o].present THEN
        IF Has(sf[o].rs, rsid) THEN
            LET cur == Get(sf[o].rs, rsid) IN
            IF action = "true" /\ cur.modified = "false"
            THEN Ok([sf EXCEPT ![o].rs = Put(sf[o].rs, [cur EXCEPT !.modified = "true"])])
            ELSE IF action # "del" /\ cur.modified = "del" THEN Raise(sf)
            ELSE IF action = "false" /\ cur.modified = "true" THEN Raise(sf)
            ELSE Ok(sf)
        ELSE Ok([sf EXCEPT ![o].rs = Put(sf[o].rs, RsEntry(rsid, action, <<>>))])
    ELSE Ok([StateAddOrganization(sf, o) EXCEPT ![o].rs = Put(StateAddOrganization(sf, o)[o].rs, RsEntry(rsid, action, <<>>))])

\* a deletion that marks the entry del and keeps the rules it tracked
StateDeleteRulesetKeepRules(sf, o, rsid) ==
    Ok([sf EXCEPT ![o] = [present |-> TRUE,
                          rs |-> Put(sf[o].rs,
                                     RsEntry(rsid, "del",
                                             IF Has(sf[o].rs, rsid)
                                             THEN Get(sf[o].rs, rsid).ruleIds ELSE <<>>))]])

\* State._state_delete_ruleset
StateDeleteRuleset(sf, o, rsid) ==
    IF sf[o].present THEN
        IF Has(sf[o].rs, rsid) THEN
            IF EndsWithPostfix(rsid) THEN
                LET rest == Pop(sf[o].rs, rsid) IN
                IF Len(rest) = 0 THEN Ok([sf EXCEPT ![o] = Absent])
                ELSE Ok([sf EXCEPT ![o].rs = rest])
            ELSE
                LET cur == Get(sf[o].rs, rsid) IN
                IF cur.modified # "del"
                THEN Ok([sf EXCEPT ![o].rs = Put(sf[o].rs, RsEntry(rsid, "del", <<>>))])
                ELSE IF cur.ruleIds = <<>> THEN Ok(sf) ELSE Raise(sf)
        ELSE Ok([sf EXCEPT ![o].rs = Put(sf[o].rs, RsEntry(rsid, "del", <<>>))])
    ELSE Ok([sf EXCEPT ![o] = [present |-> TRUE, rs |-> <<RsEntry(rsid, "del", <<>>)>>]])

\* a status that is replaced by the endpoint given last
JoinStatusLatest(cur, endpoint) == endpoint

\* the branch of _state_add_rule for a rule that is already tracked
JoinStatus(cur, endpoint) ==
    IF endpoint = "tags" /\ cur = "both" THEN cur
    ELSE IF endpoint = "rule" /\ cur = "both" THEN cur
    ELSE IF endpoint = "both" /\ cur # "both" THEN "both"
    ELSE IF endpoint = "tags" /\ cur = "rule" THEN "both"
    ELSE IF endpoint = "rule" /\ cur = "tags" THEN "both"
    ELSE cur

\* State._state_add_rule (the recursive calls for a missing organization or
\* ruleset entry are unfolded: they add the entry and take the tracked path)
StateAddRule(sf, o, rsid, rid, endpoint) ==
    LET withOrg == StateAddOrganization(sf, o)
        withRs == IF Has(withOrg[o].rs, rsid) THEN withOrg
                  ELSE [withOrg EXCEPT ![o].rs = Put(withOrg[o].rs, RsEntry(rsid, "false", <<>>))]
        cur == Get(withRs[o].rs, rsid)
    IN  IF Has(cur.ruleIds, rid) THEN
            LET st == Get(cur.ruleIds, rid).status IN
            IF endpoint # "del" /\ st = "del" THEN Raise(sf)
            ELSE Ok([withRs EXCEPT ![o].rs = Put(withRs[o].rs, [cur EXCEPT !.ruleIds =
                        Put(cur.ruleIds, RuleEntry(rid, JoinStatus(st, endpoint)))])])
        ELSE Ok([withRs EXCEPT ![o].rs = Put(withRs[o].rs, [cur EXCEPT !.ruleIds =
                        Put(cur.ruleIds, RuleEntry(rid, endpoint))])])

StateDeleteRule(sf, o, rsid, rid) ==
    IF sf[o].present THEN
        IF Has(sf[o].rs, rsid) THEN
            LET cur == Get(sf[o].rs, rsid) IN
            IF Has(cur.ruleIds, rid) THEN
                IF EndsWithPostfix(rid)
                THEN [sf EXCEPT ![o].rs = Put(sf[o].rs, [cur EXCEPT !.ruleIds = Pop(cur.ruleIds, rid)])]
                ELSE [sf EXCEPT ![o].rs = Put(sf[o].rs, [cur EXCEPT !.ruleIds = Put(cur.ruleIds, RuleEntry(rid, "del"))])]
            ELSE [sf EXCEPT ![o].rs = Put(sf[o].rs, [cur EXCEPT !.ruleIds = Put(cur.ruleIds, RuleEntry(rid, "del"))])]
        ELSE [sf EXCEPT ![o].rs = Put(sf[o].rs, RsEntry(rsid, "false", <<RuleEntry(rid, "del")>>))]
    ELSE [sf EXCEPT ![o] = [present |-> TRUE,
                            rs |-> <<RsEntry(rsid, "false", <<RuleEntry(rid, "del")>>)>>]]

\* ------------------------------------------------- the filesystem mirror
NoStaging == [exists |-> FALSE, kids |-> EmptyFn]

EmptyStaging == [exists |-> TRUE, kids |-> EmptyFn]

OrgDir(kids) == [kids |-> kids, backup |-> NoStaging, remote |-> NoStaging]

RuleFile(name, body) == [name |-> name, body |-> body]

RuleDir(rule, tags) == [rule |-> rule, tags |-> tags]

RsJson(name, ruleIds) == [name |-> name, ruleIds |-> ruleIds]

RsDir(json, rules) == [json |-> json, rules |-> rules]

\* tags = dict() when create_rule is given no tags
NoTags == 0

NoId == [n |-> 0, lo |-> FALSE]

\* name += ' - COPY'
CopyPostfix == <<"COPY">>

\* State._locate_rule: the rulesets whose directory lists rule_id
RulesetsOf(kids, rid) == {rs \in DOMAIN kids : rid \in DOMAIN kids[rs].rules}

LocateRule(kids, rid) == CHOOSE rs \in RulesetsOf(kids, rid) : TRUE

\* State.rule_name_occurs
RuleNameOccurs(kids, name) ==
    \E rs \in DOMAIN kids : \E r \in DOMAIN kids[rs].rules :
        kids[rs].rules[r].rule.name = name

\* State.ruleset_name_occurs
RulesetNameOccurs(kids, name) ==
    \E rs \in DOMAIN kids : kids[rs].json.name = name

\* name += name_postfix, whatever the postfix is
AppendGiven(name, postfix) == name \o postfix

\* if name_postfix: name += name_postfix  else: name += ' - COPY'
AppendPostfix(name, postfix) ==
    IF postfix # <<>> THEN name \o postfix ELSE name \o CopyPostfix

\* while self.rule_name_occurs(data['name']): ...
RECURSIVE UniqueRuleName(_, _, _)
UniqueRuleName(kids, name, postfix) ==
    IF RuleNameOccurs(kids, name)
    THEN UniqueRuleName(kids, AppendPostfix(name, postfix), postfix)
    ELSE name

\* the name as it was given, whether a ruleset carries it or not
UniqueRulesetNameGiven(kids, name, postfix) == name

\* while self.ruleset_name_occurs(data['name']): ...
RECURSIVE UniqueRulesetName(_, _, _)
UniqueRulesetName(kids, name, postfix) ==
    IF RulesetNameOccurs(kids, name)
    THEN UniqueRulesetName(kids, AppendPostfix(name, postfix), postfix)
    ELSE name

\* Result of an engine operation: the disk and the state file it leaves,
\* what it returns (ok = a non-null result, ret = the returned ID if any)
\* and whether it raised.
Res(d, sf, ok, ret, raised) ==
    [disk |-> d, sf |-> sf, ok |-> ok, ret |-> ret, raised |-> raised]

CreatedStatusRuleOnly == "rule"

\* the status _create_rule tracks a new rule with
CreatedStatus == "both"

\* State._create_rule, with the drawn ID
CreateRuleDisk(d, sf, o, rsid, rule, tags, newId) ==
    LET kids == d[o].kids IN
    IF rsid \notin DOMAIN kids THEN Res(d, sf, FALSE, NoId, FALSE)
    ELSE
        LET dir == kids[rsid]
            newDir == RsDir(RsJson(dir.json.name, Append(dir.json.ruleIds, newId)),
                            FnPut(dir.rules, newId, RuleDir(rule, tags)))
            d2 == [d EXCEPT ![o].kids = FnPut(d[o].kids, rsid, newDir)]
            st == StateAddRule(sf, o, rsid, newId, CreatedStatus)
        IN Res(d2, st.sf, ~st.raised, newId, st.raised)

\* State.create_rule
CreateRuleOp(d, sf, o, rsid, rule, tags, postfix, newId) ==
    LET name == UniqueRuleName(d[o].kids, rule.name, postfix)
    IN CreateRuleDisk(d, sf, o, rsid, RuleFile(name, rule.body), tags, newId)

\* State._create_ruleset
CreateRulesetDisk(d, sf, o, json, newId) ==
    LET d2 == [d EXCEPT ![o].kids = FnPut(d[o].kids, newId, RsDir(json, EmptyFn))]
        st == StateAddRuleset(sf, o, newId, "true")
    IN Res(d2, st.sf, ~st.raised, newId, st.raised)

\* State.create_ruleset
CreateRulesetOp(d, sf, o, json, postfix, newId) ==
    LET name == UniqueRulesetName(d[o].kids, json.name, postfix)
    IN CreateRulesetDisk(d, sf, o, RsJson(name, json.ruleIds), newId)

\* State.update_ruleset
UpdateRulesetOp(d, sf, o, rsid, json) ==
    IF rsid \notin DOMAIN d[o].kids THEN Res(d, sf, FALSE, NoId, FALSE)
    ELSE
        LET d2 == [d EXCEPT ![o].kids[rsid].json = json]
            st == StateAddRuleset(sf, o, rsid, "true")
        IN Res(d2, st.sf, ~st.raised, NoId, st.raised)

\* State.delete_ruleset / State._delete_ruleset
DeleteRulesetOp(d, sf, o, rsid) ==
    IF rsid \notin DOMAIN d[o].kids THEN Res(d, sf, TRUE, NoId, FALSE)
    ELSE
        LET d2 == [d EXCEPT ![o].kids = FnRemove(d[o].kids, rsid)]
            st == StateDeleteRuleset(sf, o, rsid)
        IN Res(d2, st.sf, ~st.raised, NoId, st.raised)

\* State.update_rule
UpdateRuleOp(d, sf, o, rid, rule) ==
    IF RulesetsOf(d[o].kids, rid) = {} THEN Res(d, sf, FALSE, NoId, FALSE)
    ELSE
        LET rsid == LocateRule(d[o].kids, rid)
            d2 == [d EXCEPT ![o].kids[rsid].rules[rid].rule = rule]
            st == StateAddRule(sf, o, rsid, rid, "rule")
        IN Res(d2, st.sf, ~st.raised, NoId, st.raised)

\* State.create_tags
CreateTagsOp(d, sf, o, rid, tags) ==
    IF RulesetsOf(d[o].kids, rid) = {} THEN Res(d, sf, TRUE, NoId, FALSE)
    ELSE
        LET rsid == LocateRule(d[o].kids, rid)
            d2 == [d EXCEPT ![o].kids[rsid].rules[rid].tags = tags]
            st == StateAddRule(sf, o, rsid, rid, "tags")
        IN Res(d2, st.sf, ~st.raised, NoId, st.raised)

\* State.delete_rule / State._delete_rule: rmtree, the state file, then
\* ruleset.json's ruleIds.remove(rule_id), which raises ValueError when the
\* list does not hold the ID
DeleteRuleOp(d, sf, o, rid) ==
    IF RulesetsOf(d[o].kids, rid) = {} THEN Res(d, sf, TRUE, NoId, FALSE)
    ELSE
        LET rsid == LocateRule(d[o].kids, rid)
            d2 == [d EXCEPT ![o].kids[rsid].rules = FnRemove(d[o].kids[rsid].rules, rid)]
            sf2 == StateDeleteRule(sf, o, rsid, rid)
            ids == d2[o].kids[rsid].json.ruleIds
        IN  IF InList(ids, rid)
            THEN Res([d2 EXCEPT ![o].kids[rsid].json.ruleIds = ListRemove(d2[o].kids[rsid].json.ruleIds, rid)],
                     sf2, TRUE, NoId, FALSE)
            ELSE Res(d2, sf2, FALSE, NoId, TRUE)

\* State.copy_rule
CopyRuleOp(d, sf, o, rid, dst, postfix, newId) ==
    IF RulesetsOf(d[o].kids, rid) = {} THEN Res(d, sf, FALSE, NoId, FALSE)
    ELSE IF dst \notin DOMAIN d[o].kids THEN Res(d, sf, FALSE, NoId, FALSE)
    ELSE
        LET src == d[o].kids[LocateRule(d[o].kids, rid)].rules[rid]
            name == UniqueRuleName(d[o].kids, src.rule.name, postfix)
        IN CreateRuleDisk(d, sf, o, dst, RuleFile(name, src.rule.body), src.tags, newId)

\* State.copy_rule_out: the rule is located in the organization o and
\* created in the ruleset dst of the organization alt
CopyRuleOutOp(d, sf, o, alt, rid, dst, postfix, newId) ==
    IF RulesetsOf(d[o].kids, rid) = {} THEN Res(d, sf, TRUE, NoId, FALSE)
    ELSE IF dst \notin DOMAIN d[alt].kids THEN Res(d, sf, FALSE, NoId, FALSE)
    ELSE
        LET src == d[o].kids[LocateRule(d[o].kids, rid)].rules[rid]
            name == UniqueRuleName(d[alt].kids, src.rule.name, postfix)
            made == CreateRuleOp(d, sf, alt, dst, RuleFile(name, src.rule.body), src.tags,
                                 <<>>, newId)
        IN Res(made.disk, made.sf, TRUE, NoId, made.raised)

\* the orders os.listdir may list the names S in
RECURSIVE Orders(_)
Orders(S) ==
    IF S = {} THEN {<<>>}
    ELSE UNION {{<<x>> \o rest : rest \in Orders(S \ {x})} : x \in S}

\* what copy_ruleset holds while it runs: the disk, the state file, whether
\* a call raised, and new_rule_ids
Copying(r, ids) == [disk |-> r.disk, sf |-> r.sf, raised |-> r.raised, ids |-> ids]

\* self.create_tags(new_rule_id, tags_data) after create_rule returned
TagCopy(made, alt, newId, tags) ==
    IF made.raised THEN made ELSE CreateTagsOp(made.disk, made.sf, alt, newId, tags)

\* copy_ruleset, the loop over the rules of the source: create_rule without
\* tags and without postfix, then create_tags; base is the number of the
\* last ID drawn
RECURSIVE CopyRules(_, _, _, _, _, _)
CopyRules(acc, rules, alt, newRs, order, base) ==
    IF order = <<>> \/ acc.raised THEN acc
    ELSE CopyRules(Copying(TagCopy(CreateRuleOp(acc.disk, acc.sf, alt, newRs,
                                                rules[Head(order)].rule, NoTags, <<>>,
                                                LocalId(base + 1)),
                                   alt, LocalId(base + 1), rules[Head(order)].tags),
                           Append(acc.ids, LocalId(base + 1))),
                   rules, alt, newRs, Tail(order), base + 1)

\* copy_ruleset up to the end of its loop: the name made unique, the new
\* ruleset created from the payload of the source, the rules copied
CopyInto(d, sf, alt, src, postfix, order, base) ==
    CopyRules(Copying(CreateRulesetOp(d, sf, alt,
                                      RsJson(UniqueRulesetName(d[alt].kids, src.json.name, postfix),
                                             src.json.ruleIds),
                                      postfix, LocalId(base + 1)),
                      <<>>),
              src.rules, alt, LocalId(base + 1), order, base + 1)

\* the end of a copy that leaves the new ruleset's ruleIds as the creations
\* left it
RuleIdsKept(done, alt, newRs) == Res(done.disk, done.sf, ~done.raised, NoId, done.raised)

\* if new_rule_ids: new_ruleset_data['ruleIds'] = new_rule_ids
RuleIdsRewritten(done, alt, newRs) ==
    IF done.raised THEN Res(done.disk, done.sf, FALSE, NoId, TRUE)
    ELSE IF done.ids = <<>> THEN Res(done.disk, done.sf, TRUE, NoId, FALSE)
    ELSE Res([done.disk EXCEPT ![alt].kids[newRs].json.ruleIds = done.ids],
             done.sf, TRUE, NoId, FALSE)

\* copy_ruleset (alt = o) and copy_ruleset_out: the ruleset rsid of the
\* organization o copied into the organization alt, its rules listed in
\* `order`; the IDs drawn are those numbered base + 1 and up
CopyRulesetInto(d, sf, o, alt, rsid, postfix, order, base) ==
    IF rsid \notin DOMAIN d[o].kids THEN Res(d, sf, FALSE, NoId, FALSE)
    ELSE RuleIdsRewritten(CopyInto(d, sf, alt, d[o].kids[rsid], postfix, order, base),
                          alt, LocalId(base + 1))

\* State.copy_ruleset
CopyRulesetOp(d, sf, o, rsid, postfix, order, base) ==
    CopyRulesetInto(d, sf, o, o, rsid, postfix, order, base)

\* State.copy_ruleset_out
CopyRulesetOutOp(d, sf, o, alt, rsid, postfix, order, base) ==
    CopyRulesetInto(d, sf, o, alt, rsid, postfix, order, base)

\* ------------------------------------------------------ the remote side
\* The platform's content of one organization: ruleset ID -> [name, rules],
\* rules: rule ID -> [rule, tags].  A call that returns updates it; a call
\* addressed to an ID the platform does not hold changes nothing.
RemoteRuleset(name, rules) == [name |-> name, rules |-> rules]

RemDeleteRuleset(rem, rsid) == FnRemove(rem, rsid)

RemPostRuleset(rem, newId, json) == FnPut(rem, newId, RemoteRuleset(json.name, EmptyFn))

RemPutRuleset(rem, rsid, json) ==
    IF rsid \in DOMAIN rem THEN [rem EXCEPT ![rsid].name = json.name] ELSE rem

RemPostRule(rem, rsid, newId, rule) ==
    IF rsid \in DOMAIN rem
    THEN [rem EXCEPT ![rsid].rules = FnPut(rem[rsid].rules, newId, RuleDir(rule, NoTags))]
    ELSE rem

RemPutRule(rem, rsid, rid, rule) ==
    IF rsid \in DOMAIN rem /\ rid \in DOMAIN rem[rsid].rules
    THEN [rem EXCEPT ![rsid].rules[rid].rule = rule]
    ELSE rem

RemPostTags(rem, rid, tags) ==
    Items([rs \in DOMAIN rem |->
        IF rid \in DOMAIN rem[rs].rules
        THEN [rem[rs] EXCEPT !.rules[rid].tags = tags]
        ELSE rem[rs]])

RemDeleteRule(rem, rsid, rid) ==
    IF rsid \in DOMAIN rem THEN [rem EXCEPT ![rsid].rules = FnRemove(rem[rsid].rules, rid)] ELSE rem

\* ----------------------------------------------------------------- push
\* What one push carries while it runs: st, the organization's map of the
\* state document held in memory; kids, the organization directory; rem, the
\* platform; data, the ruleset_data held in memory; calls, the remote calls
\* made so far; nid, the IDs the platform has assigned; crashed, whether an
\* exception other than URLError left push.
PushCtx(st, kids, rem, nid) ==
    [st |-> st, kids |-> kids, rem |-> rem, data |-> RsJson(<<>>, <<>>),
     calls |-> <<>>, nid |-> nid, crashed |-> FALSE]

\* how the platform may answer a call: a call that addresses a ruleset or a
\* rule the platform does not hold is refused (HTTPError, a URLError)
Answers(outs, known) == IF known THEN outs ELSE outs \ {"ok"}

KnownRuleset(a, rsid) == rsid \in DOMAIN a.rem

\* the call returned a document: the answer asked for ("ok"), or one that
\* holds `errors`, after which the platform is as it was
Answered(out) == out \in {"ok", "errors"}

\* the platform after a call that returned: done when the call was served
RemAfter(out, done, rem) == IF out = "ok" THEN done ELSE rem

KnownRule(a, rid) == \E rs \in DOMAIN a.rem : rid \in DOMAIN a.rem[rs].rules

Call(kind, rs, rule, ids, out) ==
    [kind |-> kind, rs |-> rs, rule |-> rule, ids |-> ids, out |-> out, got |-> NoId]

\* the call, with the ID the platform assigned in its response
Created(c, id) == [c EXCEPT !.got = id]

Logged(a, c) == [a EXCEPT !.calls = Append(a.calls, c)]

Crashed(a) == [a EXCEPT !.crashed = TRUE]

SetStatus(a, rsid, rid, status) ==
    [a EXCEPT !.st = Put(a.st, [Get(a.st, rsid) EXCEPT !.ruleIds = Put(Get(a.st, rsid).ruleIds, RuleEntry(rid, status))])]

PopRuleKept(a, rsid, rid) == a

PopRule(a, rsid, rid) ==
    [a EXCEPT !.st = Put(a.st, [Get(a.st, rsid) EXCEPT !.ruleIds = Pop(Get(a.st, rsid).ruleIds, rid)])]

StatusOf(a, rsid, rid) == Get(Get(a.st, rsid).ruleIds, rid).status

\* the status a rule entry gets once its POST rule returned
PostedStatusBoth == "both"

PostedStatus == "tags"

\* after api.post_tags returned for a rule that was just created
AfterTagsPosted(a, rsid, rid) ==
    IF StatusOf(a, rsid, rid) = "tags" THEN PopRule(a, rsid, rid)
    ELSE SetStatus(a, rsid, rid, "rule")

\* One iteration of `for rule_id in localonly_rules`: POST the rule under
\* `target`, rename its directory, POST its tags.
PostLocalRule(a, outs, rsid, target, rid) ==
    IF rid \notin DOMAIN a.kids[rsid].rules THEN {Crashed(a)}
    ELSE
        LET dir == a.kids[rsid].rules[rid]
            newId == RemoteId(a.nid + 1)
            posted == [SetStatus(a, rsid, rid, PostedStatus) EXCEPT
                          !.kids[rsid].rules = FnRename(a.kids[rsid].rules, rid, newId),
                          !.data.ruleIds = Append(a.data.ruleIds, newId),
                          !.rem = RemPostRule(a.rem, target, newId, dir.rule),
                          !.nid = a.nid + 1]
            afterRule(o1) ==
                IF o1 = "ok" THEN Logged(posted, Created(Call("postRule", target, rid, <<>>, o1), newId))
                ELSE Logged(a, Call("postRule", target, rid, <<>>, o1))
            afterTags(b, o2) ==
                IF Answered(o2)
                THEN [AfterTagsPosted(Logged(b, Call("postTags", target, newId, <<>>, o2)), rsid, rid)
                        EXCEPT !.rem = RemAfter(o2, RemPostTags(b.rem, newId, dir.tags), b.rem)]
                ELSE Logged(b, Call("postTags", target, newId, <<>>, o2))
        IN  UNION { IF o1 = "ok"
                    THEN {afterTags(afterRule(o1), o2) : o2 \in outs}
                    ELSE {afterRule(o1)} : o1 \in Answers(outs, KnownRuleset(a, target)) }

RECURSIVE PostLocalRules(_, _, _, _, _)
PostLocalRules(a, outs, rsid, target, rids) ==
    IF a.crashed \/ rids = <<>> THEN {a}
    ELSE UNION { PostLocalRules(b, outs, rsid, target, Tail(rids)) :
                    b \in PostLocalRule(a, outs, rsid, target, Head(rids)) }

\* a relocation that forgets the entry of the state file and leaves the
\* directory under its local-only ID
RelocateRulesetInState(a, rsid, newRs) == [a EXCEPT !.st = Pop(a.st, rsid)]

\* the end of the branch for a new ruleset: rename the directory, write
\* ruleset.json, move the pending entry under the assigned ID
RelocateRuleset(a, rsid, newRs) ==
    LET dir == a.kids[rsid]
        entry == Get(a.st, rsid)
        kids2 == FnPut(FnRemove(a.kids, rsid), newRs, [dir EXCEPT !.json = a.data])
    IN  IF Len(entry.ruleIds) = 0
        THEN [a EXCEPT !.kids = kids2, !.st = Pop(a.st, rsid)]
        ELSE [a EXCEPT !.kids = kids2,
                       !.st = Pop(Put(a.st, [entry EXCEPT !.id = newRs]), rsid)]

\* the branch of a local-only ruleset carrying on with the rules after a
\* POST ruleset that failed
PushNewRulesetOnward(a, outs, rsid) ==
    LET json == a.kids[rsid].json
        data == [json EXCEPT !.ruleIds = <<>>]
        newRs == RemoteId(a.nid + 1)
        created == [Logged(a, Created(Call("postRuleset", rsid, NoId, data.ruleIds, "ok"), newRs)) EXCEPT
                       !.data = data,
                       !.rem = RemPostRuleset(a.rem, newRs, data),
                       !.nid = a.nid + 1]
        failed(o1) == [Logged(a, Call("postRuleset", rsid, NoId, data.ruleIds, o1)) EXCEPT !.data = data]
    IN  UNION { IF o1 = "ok"
                THEN { IF b.crashed THEN b ELSE RelocateRuleset(b, rsid, newRs) :
                          b \in PostLocalRules(created, outs, rsid, newRs, json.ruleIds) }
                ELSE PostLocalRules(failed(o1), outs, rsid, rsid, json.ruleIds) : o1 \in outs }

\* push, the branch `if ruleset_id.endswith(self._postfix)`
PushNewRuleset(a, outs, rsid) ==
    LET json == a.kids[rsid].json
        localonly == json.ruleIds
        data == [json EXCEPT !.ruleIds = <<>>]
        newRs == RemoteId(a.nid + 1)
        created == [Logged(a, Created(Call("postRuleset", rsid, NoId, data.ruleIds, "ok"), newRs)) EXCEPT
                       !.data = data,
                       !.rem = RemPostRuleset(a.rem, newRs, data),
                       !.nid = a.nid + 1]
    IN  UNION { IF o1 = "ok"
                THEN { IF b.crashed THEN b ELSE RelocateRuleset(b, rsid, newRs) :
                          b \in PostLocalRules(created, outs, rsid, newRs, localonly) }
                ELSE IF o1 = "errors"
                THEN {Crashed(Logged(a, Call("postRuleset", rsid, NoId, data.ruleIds, o1)))}
                ELSE {Logged(a, Call("postRuleset", rsid, NoId, data.ruleIds, o1))} : o1 \in outs }

\* one iteration of the loop over the rules tracked for an existing ruleset
DispatchRule(a, outs, rsid, rid) ==
    LET status == StatusOf(a, rsid, rid)
        present == rid \in DOMAIN a.kids[rsid].rules
        dir == a.kids[rsid].rules[rid]
    IN  IF status = "rule" THEN
            IF ~present THEN {Crashed(a)}
            ELSE { IF Answered(o1)
                   THEN [PopRule(Logged(a, Call("putRule", rsid, rid, <<>>, o1)), rsid, rid)
                           EXCEPT !.rem = RemAfter(o1, RemPutRule(a.rem, rsid, rid, dir.rule), a.rem)]
                   ELSE Logged(a, Call("putRule", rsid, rid, <<>>, o1)) :
                      o1 \in Answers(outs, KnownRule(a, rid)) }
        ELSE IF status = "tags" THEN
            IF ~present THEN {Crashed(a)}
            ELSE { IF Answered(o1)
                   THEN [PopRule(Logged(a, Call("postTags", rsid, rid, <<>>, o1)), rsid, rid)
                           EXCEPT !.rem = RemAfter(o1, RemPostTags(a.rem, rid, dir.tags), a.rem)]
                   ELSE Logged(a, Call("postTags", rsid, rid, <<>>, o1)) :
                      o1 \in Answers(outs, KnownRule(a, rid)) }
        ELSE IF status = "both" THEN
            IF ~present THEN {Crashed(a)}
            ELSE LET put(o1) ==
                         [SetStatus(Logged(a, Call("putRule", rsid, rid, <<>>, o1)), rsid, rid, "tags")
                            EXCEPT !.rem = RemAfter(o1, RemPutRule(a.rem, rsid, rid, dir.rule), a.rem)]
                     tagged(b, o2) ==
                         IF Answered(o2)
                         THEN [PopRule(Logged(b, Call("postTags", rsid, rid, <<>>, o2)), rsid, rid)
                                 EXCEPT !.rem = RemAfter(o2, RemPostTags(b.rem, rid, dir.tags), b.rem)]
                         ELSE Logged(b, Call("postTags", rsid, rid, <<>>, o2))
                 IN UNION { IF Answered(o1)
                            THEN {tagged(put(o1), o2) : o2 \in outs}
                            ELSE {Logged(a, Call("putRule", rsid, rid, <<>>, o1))} :
                               o1 \in Answers(outs, KnownRule(a, rid)) }
        ELSE
            { IF Answered(o1)
              THEN [PopRule(Logged(a, Call("deleteRule", rsid, rid, <<>>, o1)), rsid, rid)
                      EXCEPT !.rem = RemAfter(o1, RemDeleteRule(a.rem, rsid, rid), a.rem)]
              ELSE Logged(a, Call("deleteRule", rsid, rid, <<>>, o1)) :
                 o1 \in Answers(outs, KnownRule(a, rid)) }

RECURSIVE DispatchRules(_, _, _, _)
DispatchRules(a, outs, rsid, rids) ==
    IF a.crashed \/ rids = <<>> THEN {a}
    ELSE UNION { DispatchRules(b, outs, rsid, Tail(rids)) :
                    b \in DispatchRule(a, outs, rsid, Head(rids)) }

\* the list of rule IDs taken as it is
WithLocalOnly(ids) == ids

\* [rule_id for rule_id in ruleset_data['ruleIds'] if not rule_id.endswith(self._postfix)]
WithoutLocalOnly(ids) == SelectSeq(ids, LAMBDA r : ~EndsWithPostfix(r))

\* the end of the branch for an existing ruleset
DropIfClean(a, rsid) ==
    LET entry == Get(a.st, rsid) IN
    IF entry.modified = "false" /\ Len(entry.ruleIds) = 0
    THEN [a EXCEPT !.st = Pop(a.st, rsid)]
    ELSE a

\* push, the branch of a ruleset that already existed
PushExistingRuleset(a, outs, rsid) ==
    LET json == a.kids[rsid].json
        localonly == SelectSeq(json.ruleIds, LAMBDA r : EndsWithPostfix(r))
        data == [json EXCEPT !.ruleIds = WithoutLocalOnly(json.ruleIds)]
        a0 == [a EXCEPT !.data = data]
        put(o1) ==
            IF Answered(o1)
            THEN [Logged(a0, Call("putRuleset", rsid, NoId, data.ruleIds, o1)) EXCEPT
                     !.st = Put(a0.st, [Get(a0.st, rsid) EXCEPT !.modified = "false"]),
                     !.rem = RemAfter(o1, RemPutRuleset(a0.rem, rsid, data), a0.rem)]
            ELSE Logged(a0, Call("putRuleset", rsid, NoId, data.ruleIds, o1))
        afterPut == IF Get(a.st, rsid).modified = "true"
                    THEN {put(o1) : o1 \in Answers(outs, KnownRuleset(a, rsid))}
                    ELSE {a0}
        written(b) == IF b.crashed THEN b ELSE [b EXCEPT !.kids[rsid].json = b.data]
        afterLocal == UNION { {written(c) : c \in PostLocalRules(b, outs, rsid, rsid, localonly)} :
                                 b \in afterPut }
    IN  UNION { { IF c.crashed THEN c ELSE DropIfClean(c, rsid) :
                     c \in DispatchRules(b, outs, rsid, KeyList(Get(b.st, rsid).ruleIds)) } :
                   b \in { x \in afterLocal : ~x.crashed } }
        \cup { x \in afterLocal : x.crashed }

\* one iteration that forgets a ruleset marked del whatever the platform
\* answered
PushRulesetForget(a, outs, rsid) ==
    IF Get(a.st, rsid).modified = "del" THEN
        { [Logged(a, Call("deleteRuleset", rsid, NoId, <<>>, o1)) EXCEPT !.st = Pop(a.st, rsid)] :
             o1 \in Answers(outs, KnownRuleset(a, rsid)) }
    ELSE IF rsid \notin DOMAIN a.kids THEN {Crashed(a)}
    ELSE IF EndsWithPostfix(rsid) THEN PushNewRuleset(a, outs, rsid)
    ELSE PushExistingRuleset(a, outs, rsid)

\* push, one iteration of `for ruleset_id in list(state[...])`
PushRuleset(a, outs, rsid) ==
    IF Get(a.st, rsid).modified = "del" THEN
        { IF Answered(o1)
          THEN [Logged(a, Call("deleteRuleset", rsid, NoId, <<>>, o1)) EXCEPT
                   !.st = Pop(a.st, rsid),
                   !.rem = RemAfter(o1, RemDeleteRuleset(a.rem, rsid), a.rem)]
          ELSE Logged(a, Call("deleteRuleset", rsid, NoId, <<>>, o1)) :
             o1 \in Answers(outs, KnownRuleset(a, rsid)) }
    ELSE IF rsid \notin DOMAIN a.kids THEN {Crashed(a)}
    ELSE IF EndsWithPostfix(rsid) THEN PushNewRuleset(a, outs, rsid)
    ELSE PushExistingRuleset(a, outs, rsid)

RECURSIVE PushRulesets(_, _, _)
PushRulesets(a, outs, rsids) ==
    IF a.crashed \/ rsids = <<>> THEN {a}
    ELSE UNION { PushRulesets(b, outs, Tail(rsids)) : b \in PushRuleset(a, outs, Head(rsids)) }

\* the organization's entry push writes: dropped when its map is empty
FinalEntry(st) == IF Len(st) = 0 THEN Absent ELSE [present |-> TRUE, rs |-> st]

\* State.push for the organization o on the document doc: the possible runs,
\* one per choice of the outcomes of the remote calls
PushOrg(doc, kids, rem, nid, outs) ==
    PushRulesets(PushCtx(doc.rs, kids, rem, nid), outs, KeyList(doc.rs))

\* -------------------------------------------------------------- refresh
\* what the platform returns for an organization, as refresh writes it
MirrorOf(rem) ==
    Items([rs \in DOMAIN rem |->
        RsDir(RsJson(rem[rs].name, SetToSeq(DOMAIN rem[rs].rules)), rem[rs].rules)])

\* the contents .remote/ may have when a fetch fails: some rulesets written in
\* full and at most one written in part
Partials(rem) ==
    LET full == MirrorOf(rem) IN
    { [rs \in S |-> full[rs]] : S \in SUBSET DOMAIN full }
    \cup { [rs \in S \cup {p} |->
               IF rs = p THEN [full[p] EXCEPT !.rules = [r \in R |-> full[p].rules[r]]]
               ELSE full[rs]] :
             <<S, p, R>> \in { <<S1, p1, R1>> \in
                 (SUBSET DOMAIN full) \X (DOMAIN full) \X (SUBSET UNION {DOMAIN full[x].rules : x \in DOMAIN full}) :
                     p1 \notin S1 /\ R1 \subseteq DOMAIN full[p1].rules /\ R1 # DOMAIN full[p1].rules } }

RefreshRes(dir, sf, out, raised) == [dir |-> dir, sf |-> sf, out |-> out, raised |-> raised]

\* refresh, the clearing of a former run's leftovers: rmtree(.remote), then
\* shutil.move of every child of .backup/ into the organization directory,
\* which raises when a child of that name is already there
RecoverStaging(dir) ==
    LET d1 == IF dir.remote.exists THEN [dir EXCEPT !.remote = NoStaging] ELSE dir
        hit == DOMAIN d1.backup.kids \cap DOMAIN d1.kids
    IN  IF ~d1.backup.exists THEN {[dir |-> d1, raised |-> FALSE]}
        ELSE IF hit = {}
        THEN {[dir |-> [d1 EXCEPT !.kids = d1.backup.kids @@ d1.kids, !.backup = NoStaging],
               raised |-> FALSE]}
        ELSE { [dir |-> [d1 EXCEPT !.kids = [x \in S |-> d1.backup.kids[x]] @@ d1.kids,
                                   !.backup.kids = [x \in (DOMAIN d1.backup.kids) \ S |-> d1.backup.kids[x]]],
                raised |-> TRUE] : S \in SUBSET ((DOMAIN d1.backup.kids) \ hit) }

\* refresh: mkdir .backup, mkdir .remote, move every child into .backup/
StageBackup(dir) ==
    [kids |-> EmptyFn, backup |-> [exists |-> TRUE, kids |-> dir.kids], remote |-> EmptyStaging]

\* refresh, the early returns on an empty response or one holding `errors`
FetchRejected(staged) == staged

\* refresh, the handler of URLError and KeyboardInterrupt
FetchFailed(staged, partial) ==
    LET d1 == [staged EXCEPT !.remote = NoStaging]
    IN [d1 EXCEPT !.kids = d1.backup.kids @@ d1.kids, !.backup = NoStaging]

FetchDoneOverBackup(staged, fetched) ==
    [kids |-> fetched @@ staged.backup.kids, backup |-> NoStaging, remote |-> NoStaging]

\* refresh, the else branch of the try (the disk part)
FetchDone(staged, fetched) ==
    [kids |-> fetched @@ staged.kids, backup |-> NoStaging, remote |-> NoStaging]

\* how a fetch may end
FetchOutcomes == {"ok", "URLError", "KeyboardInterrupt", "errors"}

\* State.refresh: the possible runs
RefreshOrg(dir, sf, rem, o, fetches) ==
    UNION { IF r.raised THEN {RefreshRes(r.dir, sf, "recovery", TRUE)}
            ELSE LET staged == StageBackup(r.dir) IN
                 UNION { IF f = "ok"
                         THEN {RefreshRes(FetchDone(staged, MirrorOf(rem)),
                                          StateDeleteOrganization(sf, o), f, FALSE)}
                         ELSE IF f = "errors"
                         THEN {RefreshRes(FetchRejected(staged), sf, f, FALSE)}
                         ELSE {RefreshRes(FetchFailed([staged EXCEPT !.remote.kids = p], p), sf, f, FALSE) :
                                  p \in Partials(rem)} : f \in fetches }
          : r \in RecoverStaging(dir) }

\* the part of a directory made of the children in S
Part(kids, S) == Items([x \in S |-> kids[x]])

\* State.refresh cut short after its recovery step, by a KeyboardInterrupt
\* outside the try block or by the death of the process: the directory it
\* leaves, and where it was cut
CutOrg(dir, rem) ==
    UNION { IF r.raised THEN {}
            ELSE LET K == DOMAIN r.dir.kids
                     staged == StageBackup(r.dir)
                     fetched == MirrorOf(rem)
                 IN  { [dir |-> [kids |-> Part(r.dir.kids, K \ S),
                                 backup |-> [exists |-> TRUE, kids |-> Part(r.dir.kids, S)],
                                 remote |-> EmptyStaging],
                        out |-> "cut:staging"] : S \in SUBSET K }
                     \cup { [dir |-> [staged EXCEPT !.remote.kids = p], out |-> "cut:fetch"] :
                               p \in Partials(rem) }
                     \cup { [dir |-> [kids |-> Part(r.dir.kids, S),
                                      backup |-> [exists |-> TRUE, kids |-> Part(r.dir.kids, K \ S)],
                                      remote |-> NoStaging],
                             out |-> "cut:restore"] : S \in SUBSET K }
                     \cup { [dir |-> [kids |-> Part(fetched, S),
                                      backup |-> staged.backup,
                                      remote |-> [exists |-> TRUE,
                                                  kids |-> Part(fetched, (DOMAIN fetched) \ S)]],
                             out |-> "cut:install"] : S \in SUBSET DOMAIN fetched }
                     \cup { [dir |-> [kids |-> fetched, backup |-> NoStaging, remote |-> EmptyStaging],
                             out |-> "cut:install"] }
          : r \in RecoverStaging(dir) }

\* --------------------------------------------------------- the machine
\* inputs the operations are driven with
Names == {<<"a">>, <<"b">>}

\* the postfix argument: absent or empty (then ' - COPY' is used), or given
Postfixes == {<<>>, <<"x">>}

\* the postfix argument left out
NoPostfix == {<<>>}

Bodies == {1}

TagVals == {1}

\* how a remote call of push may end
Outcomes == {"ok", "URLError"}

\* the entities the platform holds at the start
RsA == RemoteId(0 - 1)

RuleA == RemoteId(0 - 2)

RsB == RemoteId(0 - 3)

RsC == RemoteId(0 - 4)

InitRemote ==
    [o \in Orgs |->
        IF o = "o1"
        THEN (RsA :> RemoteRuleset(<<"a">>, (RuleA :> RuleDir(RuleFile(<<"a">>, 0), 0))))
        ELSE IF o = "o2" THEN (RsB :> RemoteRuleset(<<"a">>, EmptyFn))
        ELSE (RsC :> RemoteRuleset(<<"a">>, EmptyFn))]

\* no staging directory is left in the organization directory
Clean(dir) == ~dir.backup.exists /\ ~dir.remote.exists

\* the IDs an operation may be called with: those on disk and an unknown one
RulesetArgs(o) == DOMAIN disk[o].kids \cup {NoId}

RuleIdsOf(kids) == UNION {DOMAIN kids[rs].rules : rs \in DOMAIN kids}

RuleArgs(o) == RuleIdsOf(disk[o].kids) \cup {NoId}

\* the POSTs a push of the directory may make
LocalOnDisk(kids) ==
    Cardinality({rs \in DOMAIN kids : EndsWithPostfix(rs)})
    + Cardinality({<<rs, r>> \in (DOMAIN kids) \X RuleIdsOf(kids) :
                      r \in DOMAIN kids[rs].rules /\ EndsWithPostfix(r)})

AllOk(calls) == \A i \in DOMAIN calls : calls[i].out = "ok"

\* the children the organization directory had before the refresh that
\* left staging directories behind began
Held(o) == IF Clean(disk[o]) THEN disk[o].kids ELSE last.kids0

\* the operation was a push with a failed call or one that raised, or a
\* refresh that did not go through
Faulty(l) ==
    \/ l.op = "push" /\ (~l.allOk \/ l.raised)
    \/ l.op = "refresh" /\ l.out # "ok"

\* the record of the operation that ran last; faulted says whether a push or
\* a refresh before it was faulty, again whether a push follows a push that
\* made calls, resumed whether a refresh found staging directories, dirty
\* whether a refresh ran over local-only directories and a pending entry
Ran(op, o, rs, rule, arg, ok, ret, raised, calls, out, wrote, kids0) ==
    [op |-> op, org |-> o, rs |-> rs, rule |-> rule, arg |-> arg, ok |-> ok, ret |-> ret,
     raised |-> raised, calls |-> calls, allOk |-> AllOk(calls),
     out |-> out, wrote |-> wrote, kids0 |-> kids0,
     faulted |-> last.faulted \/ Faulty(last),
     again |-> op = "push" /\ last.op = "push" /\ last.org = o /\ last.calls # <<>>,
     resumed |-> op = "refresh" /\ ~Clean(disk[o]),
     dirty |-> op = "refresh" /\ stateFile[o].present /\ LocalOnDisk(disk[o].kids) > 0]

NoArg == [name |-> <<>>, body |-> 0, tags |-> 0, postfix |-> <<>>]

Arg(name, body, tags, postfix) == [name |-> name, body |-> body, tags |-> tags, postfix |-> postfix]

\* a task of the worker pool: where it stands and the document it holds
Idle == [pc |-> "idle", doc |-> [o \in Orgs |-> Absent], calls |-> <<>>, del1 |-> FALSE]

Init ==
    /\ remote = InitRemote
    /\ disk = [o \in Orgs |-> OrgDir(MirrorOf(InitRemote[o]))]
    /\ stateFile = [o \in Orgs |-> Absent]
    /\ nextLocal = 0
    /\ nextRemote = 0
    /\ edits = 0
    /\ pool = [o \in Orgs |-> Idle]
    /\ last = [op |-> "init", org |-> Workspace, rs |-> NoId, rule |-> NoId, arg |-> NoArg,
               ok |-> TRUE, ret |-> NoId, raised |-> FALSE, calls |-> <<>>, allOk |-> TRUE,
               out |-> "", wrote |-> FALSE, kids0 |-> EmptyFn, faulted |-> FALSE,
               again |-> FALSE, resumed |-> FALSE, dirty |-> FALSE]

\* the operations whose method returns the generated ID, a str
ReturnsId == {"createRuleset", "createRule"}

\* lazy, with lazy_eval false: res = f(...); when res is not None,
\* res.push(); res is what f returned, the engine or, for the operations of
\* ReturnsId, the ID, which has no push
Eager(op, o, rs, rule, arg, res) ==
    /\ edits < MaxEdits
    /\ edits' = edits + 1
    /\ nextRemote + LocalOnDisk(res.disk[o].kids) <= MaxRemote
    /\ IF res.raised \/ ~res.ok \/ op \in ReturnsId
       THEN /\ disk' = res.disk
            /\ stateFile' = res.sf
            /\ UNCHANGED <<remote, nextRemote>>
            /\ last' = Ran(op, o, rs, rule, arg, res.ok, res.ret, res.raised \/ res.ok, <<>>,
                           IF res.raised \/ ~res.ok THEN "" ELSE "AttributeError",
                           res.sf # stateFile, EmptyFn)
       ELSE IF res.sf[o].present
       THEN \E r \in PushOrg(res.sf[o], res.disk[o].kids, remote[o], nextRemote, Outcomes) :
               /\ disk' = [res.disk EXCEPT ![o].kids = r.kids]
               /\ remote' = [remote EXCEPT ![o] = r.rem]
               /\ nextRemote' = r.nid
               /\ stateFile' = IF r.crashed THEN res.sf
                               ELSE [res.sf EXCEPT ![o] = FinalEntry(r.st)]
               /\ last' = Ran(op, o, rs, rule, arg, TRUE, res.ret, r.crashed, r.calls, "pushed",
                              TRUE, EmptyFn)
       ELSE /\ disk' = res.disk
            /\ stateFile' = res.sf
            /\ UNCHANGED <<remote, nextRemote>>
            /\ last' = Ran(op, o, rs, rule, arg, TRUE, res.ret, FALSE, <<>>, "pushed",
                           res.sf # stateFile, EmptyFn)
    /\ UNCHANGED pool

\* the wrapper taking its else branch whatever lazy_eval is
EngineUnlazy(op, o, rs, rule, arg, res) == Eager(op, o, rs, rule, arg, res)

\* an engine operation took effect
Engine(op, o, rs, rule, arg, res) ==
    /\ edits < MaxEdits
    /\ edits' = edits + 1
    /\ disk' = res.disk
    /\ stateFile' = res.sf
    /\ last' = Ran(op, o, rs, rule, arg, res.ok, res.ret, res.raised, <<>>, "",
                   res.sf # stateFile, EmptyFn)
    /\ UNCHANGED <<remote, nextRemote, pool>>

CreateRuleset(o) ==
    /\ Clean(disk[o])
    /\ nextLocal < MaxLocal
    /\ \E name \in Names, postfix \in NoPostfix :
          Engine("createRuleset", o, NoId, NoId, Arg(name, 0, 0, postfix),
                 CreateRulesetOp(disk, stateFile, o, RsJson(name, <<>>), postfix,
                                 LocalId(nextLocal + 1)))
    /\ nextLocal' = nextLocal + 1

UpdateRuleset(o) ==
    /\ Clean(disk[o])
    /\ \E rs \in RulesetArgs(o), name \in Names :
          Engine("updateRuleset", o, rs, NoId, Arg(name, 0, 0, <<>>),
                 UpdateRulesetOp(disk, stateFile, o, rs,
                     RsJson(name, IF rs \in DOMAIN disk[o].kids
                                  THEN disk[o].kids[rs].json.ruleIds ELSE <<>>)))
    /\ UNCHANGED nextLocal

DeleteRuleset(o) ==
    /\ Clean(disk[o])
    /\ \E rs \in RulesetArgs(o) :
          Engine("deleteRuleset", o, rs, NoId, NoArg, DeleteRulesetOp(disk, stateFile, o, rs))
    /\ UNCHANGED nextLocal

CreateRule(o) ==
    /\ Clean(disk[o])
    /\ nextLocal < MaxLocal
    /\ \E rs \in RulesetArgs(o), name \in Names, body \in Bodies, tags \in TagVals,
          postfix \in Postfixes :
          Engine("createRule", o, rs, NoId, Arg(name, body, tags, postfix),
                 CreateRuleOp(disk, stateFile, o, rs, RuleFile(name, body), tags, postfix,
                              LocalId(nextLocal + 1)))
    /\ nextLocal' = nextLocal + 1

UpdateRule(o) ==
    /\ Clean(disk[o])
    /\ \E rid \in RuleArgs(o), name \in Names, body \in Bodies :
          Engine("updateRule", o, NoId, rid, Arg(name, body, 0, <<>>),
                 UpdateRuleOp(disk, stateFile, o, rid, RuleFile(name, body)))
    /\ UNCHANGED nextLocal

UpdateTags(o) ==
    /\ Clean(disk[o])
    /\ \E rid \in RuleArgs(o), tags \in TagVals :
          Engine("updateTags", o, NoId, rid, Arg(<<>>, 0, tags, <<>>),
                 CreateTagsOp(disk, stateFile, o, rid, tags))
    /\ UNCHANGED nextLocal

DeleteRule(o) ==
    /\ Clean(disk[o])
    /\ \E rid \in RuleArgs(o) :
          Engine("deleteRule", o, NoId, rid, NoArg, DeleteRuleOp(disk, stateFile, o, rid))
    /\ UNCHANGED nextLocal

CopyRule(o) ==
    /\ Clean(disk[o])
    /\ nextLocal < MaxLocal
    /\ \E rid \in RuleArgs(o), dst \in RulesetArgs(o), postfix \in NoPostfix :
          Engine("copyRule", o, dst, rid, Arg(<<>>, 0, 0, postfix),
                 CopyRuleOp(disk, stateFile, o, rid, dst, postfix, LocalId(nextLocal + 1)))
    /\ nextLocal' = nextLocal + 1

\* State.push on the organization o
Push(o) ==
    /\ nextRemote + LocalOnDisk(disk[o].kids) <= MaxRemote
    /\ IF stateFile[o].present
       THEN \E r \in PushOrg(stateFile[o], disk[o].kids, remote[o], nextRemote, Outcomes) :
               /\ disk' = [disk EXCEPT ![o].kids = r.kids]
               /\ remote' = [remote EXCEPT ![o] = r.rem]
               /\ nextRemote' = r.nid
               /\ stateFile' = IF r.crashed THEN stateFile
                               ELSE [stateFile EXCEPT ![o] = FinalEntry(r.st)]
               /\ last' = Ran("push", o, NoId, NoId, NoArg, ~r.crashed, NoId, r.crashed,
                              r.calls, "", ~r.crashed, last.kids0)
       ELSE /\ last' = Ran("push", o, NoId, NoId, NoArg, TRUE, NoId, FALSE, <<>>, "", FALSE,
                           last.kids0)
            /\ UNCHANGED <<disk, remote, nextRemote, stateFile>>
    /\ UNCHANGED <<nextLocal, edits, pool>>

\* State.refresh on the organization o
Refresh(o) ==
    /\ \E r \in RefreshOrg(disk[o], stateFile, remote[o], o, FetchOutcomes) :
          /\ disk' = [disk EXCEPT ![o] = r.dir]
          /\ stateFile' = r.sf
          /\ last' = Ran("refresh", o, NoId, NoId, NoArg, ~r.raised, NoId, r.raised,
                         <<>>, r.out, r.out = "ok",
                         IF Clean(disk[o]) /\ Clean(r.dir) THEN EmptyFn ELSE Held(o))
    /\ UNCHANGED <<remote, nextLocal, nextRemote, edits, pool>>

Next ==
    \/ CreateRuleset(Workspace)
    \/ UpdateRuleset(Workspace)
    \/ DeleteRuleset(Workspace)
    \/ CreateRule(Workspace)
    \/ UpdateRule(Workspace)
    \/ UpdateTags(Workspace)
    \/ DeleteRule(Workspace)
    \/ CopyRule(Workspace)
    \/ Push(Workspace)
    \/ Refresh(Workspace)

Spec == Init /\ [][Next]_vars

\* State.refresh on the organization o, cut short
RefreshCut(o) ==
    /\ \E r \in CutOrg(disk[o], remote[o]) :
          /\ disk' = [disk EXCEPT ![o] = r.dir]
          /\ last' = Ran("refresh", o, NoId, NoId, NoArg, FALSE, NoId, TRUE,
                         <<>>, r.out, FALSE, Held(o))
    /\ UNCHANGED <<stateFile, remote, nextLocal, nextRemote, edits, pool>>

NextCrash ==
    \/ CreateRuleset(Workspace)
    \/ DeleteRuleset(Workspace)
    \/ Refresh(Workspace)
    \/ RefreshCut(Workspace)

\* the runs in which a refresh may be cut short
SpecCrash == Init /\ [][NextCrash]_vars

\* ------------------------------------------------------ the queries
\* State.lst: read_json of <child>/ruleset.json for every name os.listdir
\* returns, .backup and .remote included, then of rule.json for every ID
\* of ruleIds; it raises on the first file that is not there
LstOp(dir) ==
    IF \/ ~Clean(dir)
       \/ \E rs \in DOMAIN dir.kids : \E i \in DOMAIN dir.kids[rs].json.ruleIds :
             dir.kids[rs].json.ruleIds[i] \notin DOMAIN dir.kids[rs].rules
    THEN [ok |-> FALSE, raised |-> TRUE, out |-> "no such file"]
    ELSE [ok |-> TRUE, raised |-> FALSE, out |-> "listed"]

\* State.lst_api_rulesets and State.lst_api_rules: None when the listing
\* holds .remote, else read_json of <child>/ruleset.json for every name listed
LstApiOp(dir) ==
    IF dir.remote.exists THEN [ok |-> FALSE, raised |-> FALSE, out |-> "refreshing"]
    ELSE IF dir.backup.exists THEN [ok |-> FALSE, raised |-> TRUE, out |-> "no such file"]
    ELSE [ok |-> TRUE, raised |-> FALSE, out |-> "listed"]

\* a query took place: it writes nothing
Query(op, o, res) ==
    /\ last' = Ran(op, o, NoId, NoId, NoArg, res.ok, NoId, res.raised, <<>>, res.out, FALSE,
                   last.kids0)
    /\ UNCHANGED <<disk, stateFile, remote, nextLocal, nextRemote, edits, pool>>

Lst(o) == Query("lst", o, LstOp(disk[o]))

LstApiRulesets(o) == Query("lstApiRulesets", o, LstApiOp(disk[o]))

LstApiRules(o) == Query("lstApiRules", o, LstApiOp(disk[o]))

NextQuery ==
    \/ CreateRuleset(Workspace)
    \/ Refresh(Workspace)
    \/ RefreshCut(Workspace)
    \/ Lst(Workspace)
    \/ LstApiRulesets(Workspace)
    \/ LstApiRules(Workspace)

\* the runs in which the organization is queried between refreshes
SpecQuery == Init /\ [][NextQuery]_vars

\* ------------------------------------------- the answers that hold errors
\* how a remote call of push may end when the platform may also return a
\* document that holds `errors`
Responses == Outcomes \cup {"errors"}

\* State.push on the organization o, over every response of the platform
PushAnswered(o) ==
    /\ nextRemote + LocalOnDisk(disk[o].kids) <= MaxRemote
    /\ IF stateFile[o].present
       THEN \E r \in PushOrg(stateFile[o], disk[o].kids, remote[o], nextRemote, Responses) :
               /\ disk' = [disk EXCEPT ![o].kids = r.kids]
               /\ remote' = [remote EXCEPT ![o] = r.rem]
               /\ nextRemote' = r.nid
               /\ stateFile' = IF r.crashed THEN stateFile
                               ELSE [stateFile EXCEPT ![o] = FinalEntry(r.st)]
               /\ last' = Ran("push", o, NoId, NoId, NoArg, ~r.crashed, NoId, r.crashed,
                              r.calls, "", ~r.crashed, last.kids0)
       ELSE /\ last' = Ran("push", o, NoId, NoId, NoArg, TRUE, NoId, FALSE, <<>>, "", FALSE,
                           last.kids0)
            /\ UNCHANGED <<disk, remote, nextRemote, stateFile>>
    /\ UNCHANGED <<nextLocal, edits, pool>>

NextAnswered ==
    \/ CreateRuleset(Workspace)
    \/ UpdateRuleset(Workspace)
    \/ DeleteRuleset(Workspace)
    \/ CreateRule(Workspace)
    \/ UpdateRule(Workspace)
    \/ UpdateTags(Workspace)
    \/ DeleteRule(Workspace)
    \/ PushAnswered(Workspace)

\* the runs of the engine and of push over every response of the platform
SpecAnswered == Init /\ [][NextAnswered]_vars

\* ------------------------------------------------- the push cut short
\* State.push on the organization o when the process dies after the loop
\* over the rulesets and before write_json(self.state_file, state): the
\* calls were made and the directories renamed, the state file is as it was
PushCut(o) ==
    /\ nextRemote + LocalOnDisk(disk[o].kids) <= MaxRemote
    /\ stateFile[o].present
    /\ \E r \in PushOrg(stateFile[o], disk[o].kids, remote[o], nextRemote, Outcomes) :
          /\ ~r.crashed
          /\ disk' = [disk EXCEPT ![o].kids = r.kids]
          /\ remote' = [remote EXCEPT ![o] = r.rem]
          /\ nextRemote' = r.nid
          /\ last' = Ran("push", o, NoId, NoId, NoArg, FALSE, NoId, TRUE, r.calls, "cut", FALSE,
                         last.kids0)
    /\ UNCHANGED <<stateFile, nextLocal, edits, pool>>

NextPushCut ==
    \/ CreateRuleset(Workspace)
    \/ CreateRule(Workspace)
    \/ DeleteRule(Workspace)
    \/ Push(Workspace)
    \/ PushCut(Workspace)

\* the runs in which a push may be cut short before it writes the state file
SpecPushCut == Init /\ [][NextPushCut]_vars

\* ------------------------------------------------------ the worker pool
PoolIdle == \A o \in Orgs : pool[o].pc = "idle"

\* the tasks a worker is running
Running == {o \in Orgs : pool[o].pc \in {"read", "called"}}

\* the organization's only pending change is one ruleset to delete
OneDelPending(o) ==
    /\ stateFile[o].present
    /\ Len(stateFile[o].rs) = 1
    /\ stateFile[o].rs[1].modified = "del"

\* an engine operation between two requests
EngineDelete(o) == PoolIdle /\ DeleteRuleset(o)

\* the push endpoint with a list of more than one organization:
\* executor.submit(_push, org_id) for each
Dispatch ==
    /\ PoolIdle
    /\ \E req \in SUBSET Orgs :
          /\ Cardinality(req) > 1
          /\ pool' = [o \in Orgs |->
                         IF o \in req THEN [Idle EXCEPT !.pc = "queued", !.del1 = OneDelPending(o)]
                         ELSE Idle]
    /\ UNCHANGED <<disk, stateFile, remote, nextLocal, nextRemote, edits, last>>

\* a worker takes the task; State.push: state = read_json(self.state_file)
TaskRead(o) ==
    /\ pool[o].pc = "queued"
    /\ Cardinality(Running) < PoolSize
    /\ pool' = [pool EXCEPT ![o].pc = "read", ![o].doc = stateFile]
    /\ UNCHANGED <<disk, stateFile, remote, nextLocal, nextRemote, edits, last>>

\* State.push: the loop over the organization's entry of the document read
TaskPush(o) ==
    /\ pool[o].pc = "read"
    /\ IF pool[o].doc[o].present
       THEN \E r \in PushOrg(pool[o].doc[o], disk[o].kids, remote[o], nextRemote, Outcomes) :
               /\ disk' = [disk EXCEPT ![o].kids = r.kids]
               /\ remote' = [remote EXCEPT ![o] = r.rem]
               /\ nextRemote' = r.nid
               /\ pool' = [pool EXCEPT ![o].pc = IF r.crashed THEN "done" ELSE "called",
                                       ![o].doc = [pool[o].doc EXCEPT ![o] = FinalEntry(r.st)],
                                       ![o].calls = r.calls]
       ELSE /\ pool' = [pool EXCEPT ![o].pc = "done"]
            /\ UNCHANGED <<disk, remote, nextRemote>>
    /\ UNCHANGED <<stateFile, nextLocal, edits, last>>

\* State.push: write_json(self.state_file, state)
TaskWrite(o) ==
    /\ pool[o].pc = "called"
    /\ stateFile' = pool[o].doc
    /\ pool' = [pool EXCEPT ![o].pc = "done"]
    /\ UNCHANGED <<disk, remote, nextLocal, nextRemote, edits, last>>

\* every future has its result: the endpoint returns
Collect ==
    /\ \E o \in Orgs : pool[o].pc = "done"
    /\ \A o \in Orgs : pool[o].pc \in {"idle", "done"}
    /\ pool' = [o \in Orgs |-> Idle]
    /\ UNCHANGED <<disk, stateFile, remote, nextLocal, nextRemote, edits, last>>

NextPool ==
    \/ \E o \in Orgs : EngineDelete(o)
    \/ Dispatch
    \/ \E o \in Orgs : TaskRead(o)
    \/ \E o \in Orgs : TaskPush(o)
    \/ \E o \in Orgs : TaskWrite(o)
    \/ Collect

\* the runs of the fan-out of the push endpoint
SpecPool == Init /\ [][NextPool]_vars

\* ------------------------------------------------- the order of the writes
\* _delete_rule write by write; pool[o].pc says how far the call has come
\* and last holds its arguments

\* shutil.rmtree(rule_dir) of a rule _locate_rule found
DeleteRuleTree(o) ==
    /\ pool[o].pc = "idle"
    /\ Clean(disk[o])
    /\ edits < MaxEdits
    /\ \E rid \in RuleIdsOf(disk[o].kids) :
          LET rsid == LocateRule(disk[o].kids, rid) IN
          /\ disk' = [disk EXCEPT ![o].kids[rsid].rules = FnRemove(disk[o].kids[rsid].rules, rid)]
          /\ last' = Ran("deleteRule", o, rsid, rid, NoArg, FALSE, NoId, FALSE, <<>>, "rmtree",
                         FALSE, EmptyFn)
    /\ edits' = edits + 1
    /\ pool' = [pool EXCEPT ![o].pc = "tree"]
    /\ UNCHANGED <<stateFile, remote, nextLocal, nextRemote>>

\* self._state_delete_rule(ruleset_id, rule_id)
DeleteRuleState(o) ==
    /\ pool[o].pc = "tree"
    /\ stateFile' = StateDeleteRule(stateFile, o, last.rs, last.rule)
    /\ last' = [last EXCEPT !.out = "state", !.wrote = TRUE]
    /\ pool' = [pool EXCEPT ![o].pc = "state"]
    /\ UNCHANGED <<disk, remote, nextLocal, nextRemote, edits>>

\* ruleset_data['ruleIds'].remove(rule_id); write_json(ruleset_dir + 'ruleset.json', ruleset_data)
DeleteRuleJson(o) ==
    /\ pool[o].pc = "state"
    /\ LET ids == disk[o].kids[last.rs].json.ruleIds IN
       IF InList(ids, last.rule)
       THEN /\ disk' = [disk EXCEPT ![o].kids[last.rs].json.ruleIds = ListRemove(ids, last.rule)]
            /\ last' = [last EXCEPT !.out = "json", !.ok = TRUE]
       ELSE /\ disk' = disk
            /\ last' = [last EXCEPT !.out = "json", !.raised = TRUE]
    /\ pool' = [pool EXCEPT ![o].pc = "idle"]
    /\ UNCHANGED <<stateFile, remote, nextLocal, nextRemote, edits>>

\* no call of _delete_rule is under way
NoWriteUnderWay == pool[Workspace].pc = "idle"

NextWrites ==
    \/ NoWriteUnderWay /\ CreateRuleset(Workspace)
    \/ NoWriteUnderWay /\ CreateRule(Workspace)
    \/ NoWriteUnderWay /\ Push(Workspace)
    \/ DeleteRuleTree(Workspace)
    \/ DeleteRuleState(Workspace)
    \/ DeleteRuleJson(Workspace)

\* the runs in which deleteRule is taken write by write
SpecWrites == Init /\ [][NextWrites]_vars

\* ------------------------------------------------------ the eager mode
EagerCreateRuleset(o) ==
    /\ nextLocal < MaxLocal
    /\ \E name \in Names, postfix \in NoPostfix :
          Eager("createRuleset", o, NoId, NoId, Arg(name, 0, 0, postfix),
                CreateRulesetOp(disk, stateFile, o, RsJson(name, <<>>), postfix,
                                LocalId(nextLocal + 1)))
    /\ nextLocal' = nextLocal + 1

EagerUpdateRuleset(o) ==
    /\ \E rs \in RulesetArgs(o), name \in Names :
          Eager("updateRuleset", o, rs, NoId, Arg(name, 0, 0, <<>>),
                UpdateRulesetOp(disk, stateFile, o, rs,
                    RsJson(name, IF rs \in DOMAIN disk[o].kids
                                 THEN disk[o].kids[rs].json.ruleIds ELSE <<>>)))
    /\ UNCHANGED nextLocal

EagerDeleteRuleset(o) ==
    /\ \E rs \in RulesetArgs(o) :
          Eager("deleteRuleset", o, rs, NoId, NoArg, DeleteRulesetOp(disk, stateFile, o, rs))
    /\ UNCHANGED nextLocal

EagerCreateRule(o) ==
    /\ nextLocal < MaxLocal
    /\ \E rs \in RulesetArgs(o), name \in Names, body \in Bodies, tags \in TagVals,
          postfix \in Postfixes :
          Eager("createRule", o, rs, NoId, Arg(name, body, tags, postfix),
                CreateRuleOp(disk, stateFile, o, rs, RuleFile(name, body), tags, postfix,
                             LocalId(nextLocal + 1)))
    /\ nextLocal' = nextLocal + 1

EagerUpdateTags(o) ==
    /\ \E rid \in RuleArgs(o), tags \in TagVals :
          Eager("updateTags", o, NoId, rid, Arg(<<>>, 0, tags, <<>>),
                CreateTagsOp(disk, stateFile, o, rid, tags))
    /\ UNCHANGED nextLocal

NextEager ==
    \/ EagerCreateRuleset(Workspace)
    \/ EagerUpdateRuleset(Workspace)
    \/ EagerDeleteRuleset(Workspace)
    \/ EagerCreateRule(Workspace)
    \/ EagerUpdateTags(Workspace)

\* the runs of the engine with lazy_eval false
SpecEager == Init /\ [][NextEager]_vars

\* ------------------------------------------------------ the request list
\* the longest list of organizations a request of the model carries
MaxRequest == 2

\* the lists request_data['organizations'] that take the pool branch:
\* len(request_data['organizations']) > 1, any organization any number of times
Requests == UNION {[1..n -> Orgs] : n \in 2..MaxRequest}

\* the tasks of the request in flight: a worker runs push on the directory
InFlight == {i \in DOMAIN pool : pool[i].pc \in {"read", "called"}}

\* between two requests the pool holds no task
InitList ==
    /\ remote = InitRemote
    /\ disk = [o \in Orgs |-> OrgDir(MirrorOf(InitRemote[o]))]
    /\ stateFile = [o \in Orgs |-> Absent]
    /\ nextLocal = 0
    /\ nextRemote = 0
    /\ edits = 0
    /\ pool = <<>>
    /\ last = [op |-> "init", org |-> Workspace, rs |-> NoId, rule |-> NoId, arg |-> NoArg,
               ok |-> TRUE, ret |-> NoId, raised |-> FALSE, calls |-> <<>>, allOk |-> TRUE,
               out |-> "", wrote |-> FALSE, kids0 |-> EmptyFn, faulted |-> FALSE,
               again |-> FALSE, resumed |-> FALSE, dirty |-> FALSE]

\* an engine operation between two requests
ListDelete(o) == pool = <<>> /\ DeleteRuleset(o)

\* futures = (executor.submit(_push, org_id) for org_id in request_data['organizations'])
DispatchList ==
    /\ pool = <<>>
    /\ \E req \in Requests :
          pool' = [i \in DOMAIN req |-> [org |-> req[i], pc |-> "queued", doc |-> stateFile]]
    /\ UNCHANGED <<disk, stateFile, remote, nextLocal, nextRemote, edits, last>>

\* a worker takes the i-th task; State.push: state = read_json(self.state_file)
ListRead(i) ==
    /\ pool[i].pc = "queued"
    /\ Cardinality(InFlight) < PoolSize
    /\ pool' = [pool EXCEPT ![i].pc = "read", ![i].doc = stateFile]
    /\ UNCHANGED <<disk, stateFile, remote, nextLocal, nextRemote, edits, last>>

\* State.push of the i-th task: the loop over the entry of the document read
ListPush(i) ==
    /\ pool[i].pc = "read"
    /\ LET o == pool[i].org IN
       IF pool[i].doc[o].present
       THEN \E r \in PushOrg(pool[i].doc[o], disk[o].kids, remote[o], nextRemote, Outcomes) :
               /\ disk' = [disk EXCEPT ![o].kids = r.kids]
               /\ remote' = [remote EXCEPT ![o] = r.rem]
               /\ nextRemote' = r.nid
               /\ pool' = [pool EXCEPT ![i].pc = IF r.crashed THEN "done" ELSE "called",
                                       ![i].doc = [pool[i].doc EXCEPT ![o] = FinalEntry(r.st)]]
       ELSE /\ pool' = [pool EXCEPT ![i].pc = "done"]
            /\ UNCHANGED <<disk, remote, nextRemote>>
    /\ UNCHANGED <<stateFile, nextLocal, edits, last>>

\* State.push of the i-th task: write_json(self.state_file, state)
ListWrite(i) ==
    /\ pool[i].pc = "called"
    /\ stateFile' = pool[i].doc
    /\ pool' = [pool EXCEPT ![i].pc = "done"]
    /\ UNCHANGED <<disk, remote, nextLocal, nextRemote, edits, last>>

\* every future has its result: the endpoint returns
CollectList ==
    /\ pool # <<>>
    /\ \A i \in DOMAIN pool : pool[i].pc = "done"
    /\ pool' = <<>>
    /\ UNCHANGED <<disk, stateFile, remote, nextLocal, nextRemote, edits, last>>

NextList ==
    \/ \E o \in Orgs : ListDelete(o)
    \/ DispatchList
    \/ \E i \in DOMAIN pool : ListRead(i)
    \/ \E i \in DOMAIN pool : ListPush(i)
    \/ \E i \in DOMAIN pool : ListWrite(i)
    \/ CollectList

\* the runs of the fan-out of the push endpoint over the lists it accepts
SpecList == InitList /\ [][NextList]_vars

\* ------------------------------------------------------ the copies
\* the organization the copies out of the workspace are made into
Other == "o2"

\* the rules in the directory of the ruleset rs of the organization o
RulesIn(o, rs) == IF rs \in DOMAIN disk[o].kids THEN DOMAIN disk[o].kids[rs].rules ELSE {}

CopyRuleOut(o, alt) ==
    /\ Clean(disk[o]) /\ Clean(disk[alt])
    /\ nextLocal < MaxCopyIds
    /\ \E rid \in RuleArgs(o), dst \in RulesetArgs(alt), postfix \in Postfixes :
          Engine("copyRuleOut", o, dst, rid, Arg(<<>>, 0, 0, postfix),
                 CopyRuleOutOp(disk, stateFile, o, alt, rid, dst, postfix,
                               LocalId(nextLocal + 1)))
    /\ nextLocal' = nextLocal + 1

CopyRuleset(o) ==
    /\ Clean(disk[o])
    /\ \E rs \in RulesetArgs(o), postfix \in Postfixes :
          /\ nextLocal + 1 + Cardinality(RulesIn(o, rs)) <= MaxCopyIds
          /\ \E order \in Orders(RulesIn(o, rs)) :
                Engine("copyRuleset", o, rs, NoId, Arg(<<>>, 0, 0, postfix),
                       CopyRulesetOp(disk, stateFile, o, rs, postfix, order, nextLocal))
          /\ nextLocal' = nextLocal + 1 + Cardinality(RulesIn(o, rs))

CopyRulesetOut(o, alt) ==
    /\ Clean(disk[o]) /\ Clean(disk[alt])
    /\ \E rs \in RulesetArgs(o), postfix \in NoPostfix :
          /\ nextLocal + 1 + Cardinality(RulesIn(o, rs)) <= MaxCopyIds
          /\ \E order \in Orders(RulesIn(o, rs)) :
                Engine("copyRulesetOut", o, rs, NoId, Arg(<<>>, 0, 0, postfix),
                       CopyRulesetOutOp(disk, stateFile, o, alt, rs, postfix, order, nextLocal))
          /\ nextLocal' = nextLocal + 1 + Cardinality(RulesIn(o, rs))

NextCopy ==
    \/ CreateRuleset(Workspace)
    \/ CreateRule(Workspace)
    \/ CopyRule(Workspace)
    \/ CopyRuleOut(Workspace, Other)
    \/ CopyRuleset(Workspace)
    \/ CopyRulesetOut(Workspace, Other)

\* the runs of the creating and the copying operations
SpecCopy == Init /\ [][NextCopy]_vars

\* ------------------------------------------- the state file on its own
\* the IDs the primitives of the state file are driven with
TrackedRulesets == {RsA, LocalId(1)}

TrackedRules == {RuleA, LocalId(2)}

RulesetStatus == {"true", "false", "del"}

RuleStatus == {"rule", "tags", "both", "del"}

\* a primitive of the state file ran with the status it was given
Tracking(op, o, rs, rule, given, res) ==
    /\ edits < MaxEdits
    /\ edits' = edits + 1
    /\ stateFile' = res.sf
    /\ last' = Ran(op, o, rs, rule, NoArg, ~res.raised, NoId, res.raised, <<>>, given,
                   res.sf # stateFile, EmptyFn)
    /\ UNCHANGED <<disk, remote, nextLocal, nextRemote, pool>>

AddRuleset(o) ==
    \E rs \in TrackedRulesets, action \in RulesetStatus :
       Tracking("addRuleset", o, rs, NoId, action, StateAddRuleset(stateFile, o, rs, action))

AddRule(o) ==
    \E rs \in TrackedRulesets, r \in TrackedRules, endpoint \in RuleStatus :
       Tracking("addRule", o, rs, r, endpoint, StateAddRule(stateFile, o, rs, r, endpoint))

MarkRulesetDeleted(o) ==
    \E rs \in TrackedRulesets :
       Tracking("stateDeleteRuleset", o, rs, NoId, "", StateDeleteRuleset(stateFile, o, rs))

MarkRuleDeleted(o) ==
    \E rs \in TrackedRulesets, r \in TrackedRules :
       Tracking("stateDeleteRule", o, rs, r, "", Ok(StateDeleteRule(stateFile, o, rs, r)))

NextState ==
    \/ AddRuleset(Workspace)
    \/ AddRule(Workspace)
    \/ MarkRulesetDeleted(Workspace)
    \/ MarkRuleDeleted(Workspace)

\* the runs of the primitives of the state file
SpecState == Init /\ [][NextState]_vars

(***************************************************************************)
(* Properties.                                                             *)
(***************************************************************************)
\* name is `given` followed by zero or more copies of the postfix
RECURSIVE Extends(_, _, _)
Extends(name, given, postfix) ==
    \/ name = given
    \/ /\ Len(name) > Len(given)
       /\ Extends(name, AppendPostfix(given, postfix), postfix)

RuleNames(kids) == {kids[rs].rules[r].rule.name : <<rs, r>> \in
                       {<<rs1, r1>> \in (DOMAIN kids) \X RuleIdsOf(kids) : r1 \in DOMAIN kids[rs1].rules}}

\* the step is a createRule on a ruleset on disk that the state file does not track
CreateRuleOnUntracked ==
    /\ last'.op = "createRule"
    /\ last'.rs \in DOMAIN disk[last'.org].kids
    /\ ~Has(stateFile[last'.org].rs, last'.rs)

\* what C1 says of the disk and of the returned ID, the rule data left aside
CreateRuleFrame ==
    LET o == last'.org
        rs == last'.rs
        new == last'.ret
        old == disk[o].kids[rs]
        now == disk'[o].kids[rs]
    IN  /\ last'.ok
        /\ EndsWithPostfix(new)
        /\ new \notin RuleIdsOf(disk[o].kids)
        /\ DOMAIN disk'[o].kids = DOMAIN disk[o].kids
        /\ \A x \in DOMAIN disk[o].kids \ {rs} : disk'[o].kids[x] = disk[o].kids[x]
        /\ DOMAIN now.rules = DOMAIN old.rules \cup {new}
        /\ \A r \in DOMAIN old.rules : now.rules[r] = old.rules[r]
        /\ now.json = [old.json EXCEPT !.ruleIds = Append(old.json.ruleIds, new)]

\* C1 as stated: createRule on an existing, untracked ruleset creates one
\* local-only rule directory holding the given rule and tags, appends its ID
\* to ruleIds, returns it, and leaves the organization's state entry equal to
\* {rs: {modified: false, ruleIds: {newId: both}}}
C1_AsStated ==
    [][CreateRuleOnUntracked =>
          /\ CreateRuleFrame
          /\ disk'[last'.org].kids[last'.rs].rules[last'.ret]
                = RuleDir(RuleFile(last'.arg.name, last'.arg.body), last'.arg.tags)
          /\ stateFile'[last'.org]
                = [present |-> TRUE,
                   rs |-> <<RsEntry(last'.rs, "false", <<RuleEntry(last'.ret, "both")>>)>>]]_vars

\* C1, amended: the rule is stored under the given name extended by the
\* postfix until no rule of the organization carries it (the given name when
\* it was free), with the given body and tags; the state file gains the entry
\* rs: {modified: false, ruleIds: {newId: both}} and the organization's other
\* entries stay as they were
C1_CreateRule ==
    [][CreateRuleOnUntracked =>
          LET o == last'.org
              dir == disk'[o].kids[last'.rs].rules[last'.ret]
          IN  /\ CreateRuleFrame
              /\ dir.tags = last'.arg.tags
              /\ dir.rule.body = last'.arg.body
              /\ Extends(dir.rule.name, last'.arg.name, last'.arg.postfix)
              /\ dir.rule.name \notin RuleNames(disk[o].kids)
              /\ last'.arg.name \notin RuleNames(disk[o].kids) => dir.rule.name = last'.arg.name
              /\ stateFile'[o].present
              /\ stateFile'[o].rs
                    = Append(stateFile[o].rs,
                             RsEntry(last'.rs, "false", <<RuleEntry(last'.ret, "both")>>))]_vars

\* a createRule that had to extend the name, in an organization that tracks
\* another ruleset already
C1_Witness ==
    /\ last.op = "createRule"
    /\ last.ok
    /\ last.rs \in DOMAIN disk[last.org].kids
    /\ last.ret \in DOMAIN disk[last.org].kids[last.rs].rules
    /\ disk[last.org].kids[last.rs].rules[last.ret].rule.name # last.arg.name
    /\ Len(stateFile[last.org].rs) = 2
    /\ stateFile[last.org].rs[2] = RsEntry(last.rs, "false", <<RuleEntry(last.ret, "both")>>)

\* the calls of the push that ran last
Calls == last.calls

CreatedBy(calls, kind, id) ==
    {i \in DOMAIN calls : calls[i].kind = kind /\ calls[i].out = "ok" /\
                          (IF kind = "postRuleset" THEN calls[i].rs ELSE calls[i].rule) = id}

\* the IDs that key the organization's entry of the state file
StateKeys(entry) ==
    Keys(entry.rs) \cup UNION {Keys(entry.rs[i].ruleIds) : i \in DOMAIN entry.rs}

C5_PushCompletes ==
    (last.op = "push" /\ last.allOk /\ Clean(disk[last.org])) => ~last.raised

\* C7: after a refresh whose fetches all succeed the organization directory
\* is exactly the remote's rulesets and rules, the state file has no entry
\* for the organization and no staging directory is left
C7_RefreshMirrors ==
    (last.op = "refresh" /\ last.out = "ok") =>
        LET dir == disk[last.org]
            rem == remote[last.org]
        IN  /\ DOMAIN dir.kids = DOMAIN rem
            /\ \A rs \in DOMAIN rem :
                  /\ DOMAIN dir.kids[rs].rules = DOMAIN rem[rs].rules
                  /\ \A r \in DOMAIN rem[rs].rules : dir.kids[rs].rules[r] = rem[rs].rules[r]
                  /\ dir.kids[rs].json.name = rem[rs].name
            /\ ~stateFile[last.org].present
            /\ ~dir.backup.exists /\ ~dir.remote.exists

\* a refresh went through over local-only directories and a pending entry
C7_Witness ==
    /\ last.op = "refresh" /\ last.out = "ok"
    /\ last.dirty
    /\ disk[last.org].kids = MirrorOf(remote[last.org])

\* C10: a push over an organization directory without staging directories in
\* which a remote call failed still writes the state file
C10_FailureIsolated ==
    (last.op = "push" /\ ~last.allOk /\ Clean(disk[last.org])) => last.wrote

\* the organizations of the request, once every task is done
Served == {o \in Orgs : pool[o].pc = "done"}

\* C6: when organizations with one pending del ruleset each are pushed through
\* the pool and every remote delete succeeds, then once all tasks are done
\* none of them has an entry in the state file and one deleteRuleset call was
\* made for each
C6_NoLostUpdate ==
    ( /\ Served # {}
      /\ \A o \in Orgs : pool[o].pc \in {"idle", "done"}
      /\ \A o \in Served : pool[o].del1 /\ AllOk(pool[o].calls) )
    => \A o \in Served :
          /\ ~stateFile[o].present
          /\ Len(pool[o].calls) = 1
          /\ pool[o].calls[1].kind = "deleteRuleset"

\* the outcomes of a refresh that was cancelled outside its try block
Cancelled == {"cut:staging", "cut:restore", "cut:install"}

\* C8: when a fetch fails or the refresh is cancelled after .remote/ was
\* created, refresh leaves the organization directory with the children it
\* had, without .backup/ and .remote/, and the state file as it was
C8_RefreshRestores ==
    [][( /\ last'.op = "refresh"
         /\ last'.out \in {"URLError", "KeyboardInterrupt"} \cup Cancelled
         /\ Clean(disk[last'.org]) )
          => /\ disk'[last'.org] = disk[last'.org]
             /\ stateFile' = stateFile]_vars

\* C9: a refresh that runs after a refresh was cut short does not fail in its
\* recovery step, and leaves the children the directory had before the cut
\* refresh began when its fetch fails, and the remote's rulesets when it succeeds
C9_AllOrNothing ==
    ( /\ last.op = "refresh" /\ last.resumed
      /\ last.out \in {"recovery", "ok", "URLError", "KeyboardInterrupt"} )
    => /\ ~last.raised
       /\ last.out = "ok" => disk[last.org].kids = MirrorOf(remote[last.org])
       /\ last.out # "ok" => disk[last.org].kids = last.kids0

\* the operations of the engine
EngineOps ==
    {"createRuleset", "updateRuleset", "deleteRuleset", "createRule", "updateRule",
     "updateTags", "deleteRule", "copyRule"}

\* an engine operation or a push has returned, over an organization
\* directory without staging directories
Returned ==
    /\ last.op \in EngineOps \cup {"push"}
    /\ ~last.raised
    /\ Clean(disk[last.org])

\* the entries of the state file of the organization of the last operation
Tracked == stateFile[last.org].rs

\* C11: after an engine operation and after a push, every ruleset ID and
\* every rule ID the state file keys with a status other than del names a
\* directory on disk
C11_TrackedExist ==
    Returned =>
       \A i \in DOMAIN Tracked :
          Tracked[i].modified # "del" =>
             /\ Tracked[i].id \in DOMAIN disk[last.org].kids
             /\ \A j \in DOMAIN Tracked[i].ruleIds :
                   Tracked[i].ruleIds[j].status # "del" =>
                      Tracked[i].ruleIds[j].id \in DOMAIN disk[last.org].kids[Tracked[i].id].rules

\* C12: after an engine operation and after a push, every rule directory
\* with a local-only ID is listed in the ruleIds of its ruleset's
\* ruleset.json and tracked under that ruleset's entry with status rule,
\* tags or both
C12_LocalRulesTracked ==
    Returned =>
       \A rs \in DOMAIN disk[last.org].kids :
          \A r \in DOMAIN disk[last.org].kids[rs].rules :
             EndsWithPostfix(r) =>
                /\ InList(disk[last.org].kids[rs].json.ruleIds, r)
                /\ Has(Tracked, rs)
                /\ Has(Get(Tracked, rs).ruleIds, r)
                /\ StatusOf([st |-> Tracked], rs, r) \in {"rule", "tags", "both"}

\* the rule IDs the platform holds for the organization o
RemoteRuleIds(o) == UNION {DOMAIN remote[o][rs].rules : rs \in DOMAIN remote[o]}

\* C13: after an engine operation, a push or a refresh that returned, a
\* ruleset or rule directory on disk has a counterpart of its ID on the
\* remote exactly when its ID lacks the local-only postfix
C13_RemoteXorLocal ==
    (last.op \in EngineOps \cup {"push", "refresh"} /\ ~last.raised) =>
       \A rs \in DOMAIN disk[last.org].kids :
          /\ EndsWithPostfix(rs) <=> rs \notin DOMAIN remote[last.org]
          /\ \A r \in DOMAIN disk[last.org].kids[rs].rules :
                EndsWithPostfix(r) <=> r \notin RemoteRuleIds(last.org)

\* a push returned that created a rule on the remote and left its directory
\* under the assigned ID, next to a directory that is still local-only
C13_Witness ==
    /\ last.op = "push" /\ ~last.raised
    /\ \E i \in DOMAIN Calls :
          /\ Calls[i].kind = "postRule" /\ Calls[i].out = "ok"
          /\ Calls[i].got \in RuleIdsOf(disk[last.org].kids)
          /\ Calls[i].got \in RemoteRuleIds(last.org)
    /\ \E rs \in DOMAIN disk[last.org].kids :
          EndsWithPostfix(rs) \/ \E r \in DOMAIN disk[last.org].kids[rs].rules : EndsWithPostfix(r)

\* C14: a ruleset entry of the state file with modified = del tracks no rule
\* and its directory is not on disk
C14_DelRulesetGone ==
    \A o \in Orgs : \A i \in DOMAIN stateFile[o].rs :
       stateFile[o].rs[i].modified = "del" =>
          /\ stateFile[o].rs[i].ruleIds = <<>>
          /\ stateFile[o].rs[i].id \notin DOMAIN disk[o].kids

\* after two engine operations or more, a push whose remote delete of a
\* ruleset failed has returned and left the del entry
C14_Witness ==
    /\ last.op = "push" /\ ~last.raised /\ Clean(disk[last.org])
    /\ \E i \in DOMAIN Calls : Calls[i].kind = "deleteRuleset" /\ Calls[i].out # "ok"
    /\ \E i \in DOMAIN Tracked : Tracked[i].modified = "del"
    /\ edits > 1

\* the names of the rulesets and of the rules of an organization directory
\* are pairwise distinct
NamesDistinct(kids) ==
    /\ \A rs1, rs2 \in DOMAIN kids : kids[rs1].json.name = kids[rs2].json.name => rs1 = rs2
    /\ \A rs1, rs2 \in DOMAIN kids :
          \A r1 \in DOMAIN kids[rs1].rules : \A r2 \in DOMAIN kids[rs2].rules :
             kids[rs1].rules[r1].rule.name = kids[rs2].rules[r2].rule.name => r1 = r2

\* the operations that create or copy
Creating ==
    {"createRuleset", "createRule", "copyRule", "copyRuleOut", "copyRuleset", "copyRulesetOut"}

\* C15: a create or a copy keeps the names of the rulesets and the names of
\* the rules pairwise distinct in every organization where they were
C15_NamesStayUnique ==
    [][\A o \in Orgs :
          (last'.op \in Creating /\ NamesDistinct(disk[o].kids))
             => NamesDistinct(disk'[o].kids)]_vars

\* a copy of a ruleset has left a local-only ruleset with two rules
C15_Witness ==
    /\ last.op = "copyRuleset" /\ last.ok
    /\ \E rs \in DOMAIN disk[last.org].kids :
          /\ EndsWithPostfix(rs)
          /\ Cardinality(DOMAIN disk[last.org].kids[rs].rules) = 2
          /\ disk[last.org].kids[rs].json.name # disk[last.org].kids[last.rs].json.name

\* C16: after an engine operation, updateRule and updateRuleset included, no
\* two rulesets and no two rules of the organization carry the same name
C16_NamesUnique ==
    (last.op \in EngineOps /\ Clean(disk[last.org])) => NamesDistinct(disk[last.org].kids)

\* the status the state file tracks the rule with, "none" when it does not
StatusIn(sf, o, rs, r) ==
    IF Has(sf[o].rs, rs) /\ Has(Get(sf[o].rs, rs).ruleIds, r)
    THEN Get(Get(sf[o].rs, rs).ruleIds, r).status
    ELSE "none"

\* C17: addRule with an endpoint e among rule, tags, both on a rule tracked
\* with a status s among them leaves the join of s and e (s when e = s, both
\* otherwise); on an untracked rule it leaves e, and a ruleset entry that
\* was missing is created with modified = false
C17_AddRuleJoins ==
    [][(last'.op = "addRule" /\ last'.out \in {"rule", "tags", "both"}) =>
          LET o == last'.org
              s == StatusIn(stateFile, o, last'.rs, last'.rule)
              t == StatusIn(stateFile', o, last'.rs, last'.rule)
          IN  /\ s \in {"rule", "tags", "both"} =>
                    /\ ~last'.raised
                    /\ t = IF last'.out = s THEN s ELSE "both"
                    /\ t = s \/ t = "both"
              /\ s = "none" =>
                    /\ ~last'.raised
                    /\ t = last'.out
                    /\ ~Has(stateFile[o].rs, last'.rs) =>
                          Get(stateFile'[o].rs, last'.rs) =
                             RsEntry(last'.rs, "false", <<RuleEntry(last'.rule, last'.out)>>)]_vars

\* addRule with the endpoint tags has raised a tracked status to both
C17_Witness ==
    /\ last.op = "addRule" /\ last.out = "tags" /\ last.wrote
    /\ StatusIn(stateFile, last.org, last.rs, last.rule) = "both"

\* the modified field the state file tracks the ruleset with, "none" when
\* it does not
ModifiedIn(sf, o, rs) ==
    IF Has(sf[o].rs, rs) THEN Get(sf[o].rs, rs).modified ELSE "none"

\* C18: addRuleset with action true or false on a ruleset marked del
\* raises and leaves the state file as it was, and so does addRule with the
\* endpoint rule, tags or both on a rule whose status is del
C18_DelRejected ==
    [][/\ ( /\ last'.op = "addRuleset" /\ last'.out \in {"true", "false"}
            /\ ModifiedIn(stateFile, last'.org, last'.rs) = "del" )
          => (last'.raised /\ stateFile' = stateFile)
       /\ ( /\ last'.op = "addRule" /\ last'.out \in {"rule", "tags", "both"}
            /\ StatusIn(stateFile, last'.org, last'.rs, last'.rule) = "del" )
          => (last'.raised /\ stateFile' = stateFile)]_vars

\* addRuleset with action true was refused on a ruleset marked del
C18_Witness ==
    /\ last.op = "addRuleset" /\ last.out = "true" /\ last.raised
    /\ ModifiedIn(stateFile, last.org, last.rs) = "del"

\* addRule with the endpoint both was refused on a rule whose status is del
C18_WitnessRule ==
    /\ last.op = "addRule" /\ last.out = "both" /\ last.raised
    /\ StatusIn(stateFile, last.org, last.rs, last.rule) = "del"

\* the rulesets the state file tracks for the organization
TrackedIds(sf, o) == {sf[o].rs[i].id : i \in DOMAIN sf[o].rs}

\* the push that ran last made a successful call of the kind on the ruleset
Succeeded(calls, kind, rs) ==
    \E i \in DOMAIN calls : calls[i].kind = kind /\ calls[i].rs = rs /\ calls[i].out = "ok"

AppendedUntilUnique(kids, name, given, postfix) ==
    /\ Extends(name, given, postfix)
    /\ ~RulesetNameOccurs(kids, name)
    /\ \A k \in 1..(Len(name) - 1) :
          Extends(SubSeq(name, 1, k), given, postfix) => RulesetNameOccurs(kids, SubSeq(name, 1, k))

\* the rules of the directory `copy` are new, local-only, and match the rules
\* of the directory `src` one to one: same body, same tags, the name
\* extended with ' - COPY'
CopiesOf(old, copy, src) ==
    /\ \A r \in DOMAIN copy.rules : EndsWithPostfix(r) /\ r \notin RuleIdsOf(old)
    /\ \E f \in [DOMAIN src.rules -> DOMAIN copy.rules] :
          /\ \A r1, r2 \in DOMAIN src.rules : f[r1] = f[r2] => r1 = r2
          /\ {f[r] : r \in DOMAIN src.rules} = DOMAIN copy.rules
          /\ \A r \in DOMAIN src.rules :
                /\ copy.rules[f[r]].rule.body = src.rules[r].rule.body
                /\ copy.rules[f[r]].tags = src.rules[r].tags
                /\ Extends(copy.rules[f[r]].rule.name, src.rules[r].rule.name, <<>>)
                /\ copy.rules[f[r]].rule.name # src.rules[r].rule.name

NamesMissing ==
    \/ /\ last'.op \in {"updateRule", "updateTags", "deleteRule", "copyRule"}
       /\ last'.rule \notin RuleIdsOf(disk[last'.org].kids)
    \/ /\ last'.op \in {"updateRuleset", "deleteRuleset", "copyRuleset", "copyRulesetOut",
                        "createRule", "copyRule"}
       /\ last'.rs \notin DOMAIN disk[last'.org].kids
    \/ /\ last'.op = "copyRuleOut"
       /\ last'.rs \notin DOMAIN disk[Other].kids

\* C21: an engine operation that names a rule, a ruleset or a destination
\* ruleset that does not exist returns a null/false result and changes
\* neither the state file nor the disk
C21_MissingEntity ==
    [][NamesMissing => (~last'.ok /\ stateFile' = stateFile /\ disk' = disk)]_vars

\* C23: a refresh whose ruleset-list response is empty or holds `errors`
\* returns with .remote/ and .backup/ removed, the organization directory
\* holding the children it had, and the state file as it was
C23_RejectedRestores ==
    [][(last'.op = "refresh" /\ last'.out = "errors" /\ Clean(disk[last'.org]))
          => /\ Clean(disk'[last'.org])
             /\ disk'[last'.org].kids = disk[last'.org].kids
             /\ stateFile' = stateFile]_vars

\* the queries that list the rulesets or the rules of the organization
Queries == {"lst", "lstApiRulesets", "lstApiRules"}

\* the ways a refresh ends when it is not cut short
Returns == {"ok", "URLError", "KeyboardInterrupt", "errors", "recovery"}

\* C22: .remote/ is there only while a refresh runs: a refresh that has
\* ended leaves none, and a query that finds .remote/ returns the
\* 'refreshing' result, without raising and without changing anything
C22_RemoteMeansRefreshing ==
    [][/\ (last'.op = "refresh" /\ last'.out \in Returns)
             => ~disk'[last'.org].remote.exists
       /\ (last'.op \in Queries /\ disk[last'.org].remote.exists)
             => /\ last'.out = "refreshing" /\ ~last'.raised
                /\ disk' = disk /\ stateFile' = stateFile]_vars

\* the key under which the state file held the rule the i-th call is about
\* when the push began: the local-only ID for the tags of a rule the same
\* push created
RuleKey(calls, i) ==
    IF \E j \in DOMAIN calls : calls[j].kind = "postRule" /\ calls[j].got = calls[i].rule
    THEN (CHOOSE c \in {calls[j] : j \in DOMAIN calls} :
             c.kind = "postRule" /\ c.got = calls[i].rule).rule
    ELSE calls[i].rule

\* the state file tracks the rule under some ruleset of the organization
RulePending(sf, o, r) == \E rs \in TrackedIds(sf, o) : StatusIn(sf, o, rs, r) # "none"

\* C24: a push goes on after a response that holds `errors`, whatever the
\* call: it does not raise, a ruleset entry whose POST, PUT or DELETE was so
\* answered keeps its modified, and a rule entry whose POST, PUT, DELETE or
\* POST tags was so answered stays in the state file
C24_ErrorsAreFailures ==
    [][last'.op = "push" =>
          /\ (\E i \in DOMAIN last'.calls : last'.calls[i].out = "errors") => ~last'.raised
          /\ \A i \in DOMAIN last'.calls :
                last'.calls[i].out = "errors" =>
                   IF last'.calls[i].kind \in {"postRuleset", "putRuleset", "deleteRuleset"}
                   THEN ModifiedIn(stateFile', last'.org, last'.calls[i].rs)
                           = ModifiedIn(stateFile, last'.org, last'.calls[i].rs)
                   ELSE RulePending(stateFile', last'.org, RuleKey(last'.calls, i))]_vars

\* the ID a ruleset entry of the state file is expected under after the
\* push: the one the platform assigned when the push created the ruleset
KeyAfter(calls, rs) ==
    IF \E j \in DOMAIN calls : calls[j].kind = "postRuleset" /\ calls[j].rs = rs /\ calls[j].out = "ok"
    THEN (CHOOSE c \in {calls[j] : j \in DOMAIN calls} :
             c.kind = "postRuleset" /\ c.rs = rs /\ c.out = "ok").got
    ELSE rs

\* the rule is tracked, its directory is on disk under the same ruleset and,
\* when it is local-only, ruleset.json lists it: a push can work on it
Retryable(sf, kids, o, r) ==
    \E rs \in TrackedIds(sf, o) \cap DOMAIN kids :
       /\ StatusIn(sf, o, rs, r) # "none"
       /\ r \in DOMAIN kids[rs].rules
       /\ EndsWithPostfix(r) => InList(kids[rs].json.ruleIds, r)

\* C25: a push that returns drops a ruleset entry or a rule entry, or lowers
\* modified from true to false, only when every call made for the entry was
\* acknowledged; an entry one of whose calls failed is still tracked, with
\* the modified it had for a ruleset, and for a rule under an ID whose
\* directory is on disk where the next push looks for it
C25_ShrinksOnlyOnAck ==
    [][(last'.op = "push" /\ ~last'.raised) =>
          LET o == last'.org
              calls == last'.calls
          IN  /\ \A rs \in TrackedIds(stateFile, o) :
                    /\ ModifiedIn(stateFile', o, KeyAfter(calls, rs)) = "none"
                       => \A i \in DOMAIN calls :
                             calls[i].rs \in {rs, KeyAfter(calls, rs)} => calls[i].out = "ok"
                    /\ ( /\ ModifiedIn(stateFile, o, rs) = "true"
                         /\ ModifiedIn(stateFile', o, rs) = "false" )
                       => \A i \in DOMAIN calls :
                             (calls[i].rs = rs /\ calls[i].rule = NoId) => calls[i].out = "ok"
              /\ \A rs \in TrackedIds(stateFile, o) :
                    \A r \in {e.id : e \in {Get(stateFile[o].rs, rs).ruleIds[k] :
                                               k \in DOMAIN Get(stateFile[o].rs, rs).ruleIds}} :
                       ~RulePending(stateFile', o, r)
                          => \A i \in DOMAIN calls :
                                (calls[i].rule # NoId /\ RuleKey(calls, i) = r) => calls[i].out = "ok"
              /\ \A i \in DOMAIN calls :
                    calls[i].out # "ok" =>
                       IF calls[i].rule = NoId
                       THEN /\ ModifiedIn(stateFile', o, calls[i].rs) # "none"
                            /\ ModifiedIn(stateFile', o, calls[i].rs)
                                  = ModifiedIn(stateFile, o, calls[i].rs)
                       ELSE Retryable(stateFile', disk'[o].kids, o, RuleKey(calls, i))]_vars

\* the calls that create a ruleset or a rule on the platform
Posts == {"postRuleset", "postRule"}

\* C26: a push that follows a push cut short after it had renamed a
\* directory to the ID the platform assigned, and before it wrote the state
\* file, returns normally and does not create the renamed entity again
C26_ResumesAfterRename ==
    [][( /\ last.op = "push" /\ last.out = "cut"
         /\ \E i \in DOMAIN last.calls : last.calls[i].kind \in Posts /\ last.calls[i].out = "ok"
         /\ last'.op = "push" /\ last'.out # "cut" )
          => /\ ~last'.raised
             /\ \A i \in DOMAIN last.calls : \A j \in DOMAIN last'.calls :
                   ( /\ last.calls[i].kind \in Posts /\ last.calls[i].out = "ok"
                     /\ last'.calls[j].kind = last.calls[i].kind )
                   => \/ last'.calls[j].rs # last.calls[i].rs
                      \/ last'.calls[j].rule # last.calls[i].rule]_vars

\* C27: after every write of the state file by an engine operation or by
\* push, no organization is keyed with nothing under it and no ruleset is
\* keyed with modified false and no rule under it
C27_KeyedMeansWork ==
    [][last'.wrote =>
          \A o \in Orgs : stateFile'[o].present =>
              /\ Len(stateFile'[o].rs) > 0
              /\ \A i \in DOMAIN stateFile'[o].rs :
                    \/ stateFile'[o].rs[i].modified # "false"
                    \/ Len(stateFile'[o].rs[i].ruleIds) > 0]_vars

\* the i-th call of a push addresses a ruleset, or a rule, that an earlier
\* call of the same push created
UnderCreated(calls, i) ==
    \E j \in 1..(i - 1) : calls[j].kind = "postRuleset" /\ calls[j].got = calls[i].rs

TagsOfCreated(calls, i) ==
    \E j \in 1..(i - 1) : calls[j].kind = "postRule" /\ calls[j].got = calls[i].rule

\* the phase of the i-th call of a push: ruleset deletes, ruleset creates,
\* rules and tags created under new rulesets, ruleset updates, rules and
\* tags created on existing rulesets, the dispatch of the remote rules
Phase(calls, i) ==
    LET k == calls[i].kind IN
    IF k = "deleteRuleset" THEN 1
    ELSE IF k = "postRuleset" THEN 2
    ELSE IF k = "putRuleset" THEN 4
    ELSE IF k = "postRule" \/ (k = "postTags" /\ TagsOfCreated(calls, i))
         THEN (IF UnderCreated(calls, i) THEN 3 ELSE 5)
    ELSE 6

\* C28: within one push no call of a later phase precedes a call of an
\* earlier phase (the creation of a rule and the post of its tags counted
\* as one phase)
C28_PhaseOrder ==
    [][last'.op = "push" =>
          \A i \in DOMAIN last'.calls : \A j \in DOMAIN last'.calls :
              i < j => Phase(last'.calls, i) <= Phase(last'.calls, j)]_vars

\* C29: a push of an organization keyed in the state file writes the state
\* file, once and after its last call; a push of an organization that is
\* not keyed makes no call and writes neither the state file nor the disk
C29_PushWritesOnce ==
    [][last'.op = "push" =>
          IF stateFile[last'.org].present
          THEN last'.wrote
          ELSE /\ last'.calls = <<>>
               /\ ~last'.wrote
               /\ stateFile' = stateFile
               /\ disk' = disk
               /\ remote' = remote]_vars

\* the rule rid is keyed under some ruleset of the organization o in sf
RuleKeyed(sf, o, rid) == \E i \in DOMAIN sf[o].rs : Has(sf[o].rs[i].ruleIds, rid)

\* the rule rid is keyed with the status del under the ruleset rsid
RuleKeyedDel(sf, o, rsid, rid) ==
    /\ Has(sf[o].rs, rsid)
    /\ Has(Get(sf[o].rs, rsid).ruleIds, rid)
    /\ Get(Get(sf[o].rs, rsid).ruleIds, rid).status = "del"

\* the rule rid has a directory under, or is listed by, some ruleset of kids
RuleOnDisk(kids, rid) ==
    \E rs \in DOMAIN kids : rid \in DOMAIN kids[rs].rules \/ InList(kids[rs].json.ruleIds, rid)

\* the deletion of an existing rule: a local-only one leaves nothing,
\* another one leaves an entry del
RuleDeleted(o, rid) ==
    /\ ~RuleOnDisk(disk'[o].kids, rid)
    /\ IF EndsWithPostfix(rid)
       THEN ~RuleKeyed(stateFile', o, rid)
       ELSE RuleKeyedDel(stateFile', o, LocateRule(disk[o].kids, rid), rid)

\* the deletion of an existing ruleset: a local-only one leaves nothing, of
\* itself or of its rules, another one leaves an entry del without rules
RulesetDeleted(o, rsid) ==
    /\ rsid \notin DOMAIN disk'[o].kids
    /\ IF EndsWithPostfix(rsid)
       THEN /\ ~Has(stateFile'[o].rs, rsid)
            /\ \A rid \in DOMAIN disk[o].kids[rsid].rules : ~RuleKeyed(stateFile', o, rid)
       ELSE /\ Has(stateFile'[o].rs, rsid)
            /\ Get(stateFile'[o].rs, rsid).modified = "del"
            /\ Get(stateFile'[o].rs, rsid).ruleIds = <<>>

\* C30: deleteRule on an existing local-only rule removes its directory, its
\* ID from the ruleIds of its ruleset and its entry in the state file;
\* deleteRuleset on an existing local-only ruleset removes its directory and
\* its entry with the entries of its rules; a push makes no call for a
\* local-only ID that has no directory; for an ID without the suffix the
\* entry becomes del, and a deleted ruleset keys no rule
C30_NoTraceOfUnpushed ==
    [][/\ ( /\ last'.op = "deleteRule"
            /\ RulesetsOf(disk[last'.org].kids, last'.rule) # {} )
          => RuleDeleted(last'.org, last'.rule)
       /\ ( /\ last'.op = "deleteRuleset"
            /\ last'.rs \in DOMAIN disk[last'.org].kids )
          => RulesetDeleted(last'.org, last'.rs)
       /\ last'.op = "push"
          => \A i \in DOMAIN last'.calls :
                /\ EndsWithPostfix(last'.calls[i].rs)
                      => last'.calls[i].rs \in DOMAIN disk[last'.org].kids
                /\ EndsWithPostfix(last'.calls[i].rule)
                      => RulesetsOf(disk[last'.org].kids, last'.calls[i].rule) # {}]_vars

\* the entry of the ruleset rsid in the state file of o, Absent-like when
\* it is not keyed
EntryOf(sf, o, rsid) == IF Has(sf[o].rs, rsid) THEN Get(sf[o].rs, rsid) ELSE RsEntry(NoId, "false", <<>>)

\* the i-th call of a push is a POST of a local-only ruleset that failed
PostRulesetFailed(calls, i) == calls[i].kind = "postRuleset" /\ calls[i].out # "ok"

\* C31: when the POST of a local-only ruleset fails in a push, the push
\* makes no other call for the ruleset or for a rule of it, the directory
\* keeps its local-only name and its content, and the entry of the ruleset
\* in the state file is as before
C31_FailedCreateSkipsChildren ==
    [][last'.op = "push" =>
          \A i \in DOMAIN last'.calls :
              PostRulesetFailed(last'.calls, i) =>
                 LET rsid == last'.calls[i].rs
                     o == last'.org
                 IN  /\ \A j \in DOMAIN last'.calls : j # i =>
                            /\ last'.calls[j].rs # rsid
                            /\ last'.calls[j].rule \notin DOMAIN disk[o].kids[rsid].rules
                     /\ rsid \in DOMAIN disk'[o].kids
                     /\ disk'[o].kids[rsid] = disk[o].kids[rsid]
                     /\ EntryOf(stateFile', o, rsid) = EntryOf(stateFile, o, rsid)]_vars

\* a push in which the POST of a local-only ruleset with a rule failed
C31_Witness ==
    /\ last.op = "push"
    /\ \E i \in DOMAIN last.calls :
          /\ PostRulesetFailed(last.calls, i)
          /\ last.calls[i].rs \in DOMAIN disk[last.org].kids
          /\ DOMAIN disk[last.org].kids[last.calls[i].rs].rules # {}
          /\ Len(EntryOf(stateFile, last.org, last.calls[i].rs).ruleIds) > 0

\* the outcomes of the calls of the given kind a push made for the rule rid
\* of the ruleset rs, in the order of the calls
OutsFor(calls, kind, rs, rid) ==
    SelectSeq(calls, LAMBDA c : c.kind = kind /\ c.rs = rs /\ c.rule = rid)

\* what a push does with the remote rule rid pending both under rs: PUT
\* rule first; when it fails no tags are posted and the status stays both;
\* when it succeeds the tags are posted, and the entry is dropped when they
\* succeed and left with the status tags when they fail
BothDispatched(calls, rs, rid, after) ==
    LET puts == OutsFor(calls, "putRule", rs, rid)
        tags == OutsFor(calls, "postTags", rs, rid)
    IN  /\ Len(puts) = 1
        /\ IF puts[1].out # "ok"
           THEN tags = <<>> /\ after = "both"
           ELSE /\ Len(tags) = 1
                /\ \E i \in DOMAIN calls : \E j \in DOMAIN calls :
                      i < j /\ calls[i] = puts[1] /\ calls[j] = tags[1]
                /\ after = (IF tags[1].out = "ok" THEN "none" ELSE "tags")

\* C32: for a remote rule pending with the status both, push issues PUT
\* rule and then POST tags; the entry is dropped only when both succeed, a
\* failed PUT rule leaves the status both with no tags posted, and a failed
\* POST tags after a PUT that succeeded leaves the status tags
C32_BothThenTags ==
    [][last'.op = "push" =>
          \A rs \in TrackedIds(stateFile, last'.org) : \A i \in DOMAIN Get(stateFile[last'.org].rs, rs).ruleIds :
             LET e == Get(stateFile[last'.org].rs, rs).ruleIds[i] IN
             (e.status = "both" /\ ~EndsWithPostfix(e.id) /\ ~EndsWithPostfix(rs))
                => BothDispatched(last'.calls, rs, e.id, StatusIn(stateFile', last'.org, rs, e.id))]_vars

\* C33: no ruleset payload a push sends holds a rule ID with the local-only
\* suffix: a local-only ruleset is POSTed with an empty ruleIds list, an
\* existing ruleset is PUT with the IDs of its ruleset.json that do not
\* carry the suffix
C33_PayloadsWithoutLocalOnly ==
    [][last'.op = "push" =>
          \A i \in DOMAIN last'.calls :
             LET c == last'.calls[i] IN
             /\ c.kind \in {"postRuleset", "putRuleset"} =>
                   \A k \in DOMAIN c.ids : ~EndsWithPostfix(c.ids[k])
             /\ c.kind = "postRuleset" => c.ids = <<>>
             /\ c.kind = "putRuleset" =>
                   c.ids = SelectSeq(disk[last'.org].kids[c.rs].json.ruleIds,
                                     LAMBDA r : ~EndsWithPostfix(r))]_vars

\* a push that updated a ruleset and created a rule that its ruleset.json
\* listed under a local-only ID
C33_Witness ==
    /\ last.op = "push"
    /\ \E i \in DOMAIN last.calls : \E j \in DOMAIN last.calls :
          /\ last.calls[i].kind = "putRuleset" /\ last.calls[i].ids # <<>>
          /\ last.calls[j].kind = "postRule" /\ last.calls[j].rs = last.calls[i].rs
          /\ EndsWithPostfix(last.calls[j].rule)

\* C34: a push addresses no PUT rule, POST tags or DELETE rule to a rule
\* ID or a ruleset ID that carries the local-only suffix
C34_DispatchOnlyRemote ==
    [][last'.op = "push" =>
          \A i \in DOMAIN last'.calls :
             last'.calls[i].kind \in {"putRule", "postTags", "deleteRule"} =>
                /\ ~EndsWithPostfix(last'.calls[i].rule)
                /\ ~EndsWithPostfix(last'.calls[i].rs)]_vars

\* C35: the writes of the state file by concurrent workers are serialized:
\* the write that ends the push of one organization leaves the entry of
\* every other organization as the state file holds it, so that an entry
\* another worker removed is not written back from the copy read earlier
C35_WritesSerialized ==
    [][\A o \in Orgs :
          (pool[o].pc = "called" /\ pool'[o].pc = "done") =>
             \A other \in Orgs \ {o} : stateFile'[other] = stateFile[other]]_vars

\* C36: while a task of a request is in flight for an organization, no
\* other worker of the request runs on the directory of that organization,
\* whatever list of organizations the request carries
C36_OneWorkerPerOrganization ==
    \A i \in InFlight : \A j \in InFlight : pool[i].org = pool[j].org => i = j

\* C37: an engine mutation makes all its writes to the disk before it
\* writes the state file: once the call under way has written the state
\* file, no step of it writes a rule directory or a ruleset.json
C37_DiskBeforeState ==
    [][(~NoWriteUnderWay /\ last.wrote) => disk' = disk]_vars

\* C38: with lazy_eval false, an engine operation that changed the
\* organization is followed, before it returns, by a push of its engine
C38_EagerPushes ==
    [][(last'.op \in EngineOps /\ last'.ok) => last'.out = "pushed"]_vars

\* ------------------------------------ the organizations not yet on disk
\* an organization of which state_dir holds no directory
NoDir == [kids |-> EmptyFn, backup |-> NoStaging, remote |-> NoStaging, absent |-> TRUE]

IsDir(dir) == "absent" \notin DOMAIN dir

\* State._create_organization, run by the org_id setter whenever an engine is
\* instantiated: when the directory is absent, os.mkdir and then
\* State(...).refresh(), whose only remote calls are the three fetches
CreateOrganization(d, sf, rem, o) ==
    IF IsDir(d[o]) THEN {[disk |-> d, sf |-> sf, out |-> ""]}
    ELSE { [disk |-> [d EXCEPT ![o] = r.dir], sf |-> r.sf, out |-> r.out] :
             r \in RefreshOrg(OrgDir(EmptyFn), sf, rem[o], o, FetchOutcomes) }

\* only the workspace has been instantiated so far
InitLazy ==
    /\ remote = InitRemote
    /\ disk = [o \in Orgs |-> IF o = Workspace THEN OrgDir(MirrorOf(InitRemote[o])) ELSE NoDir]
    /\ stateFile = [o \in Orgs |-> Absent]
    /\ nextLocal = 0
    /\ nextRemote = 0
    /\ edits = 0
    /\ pool = [o \in Orgs |-> Idle]
    /\ last = [op |-> "init", org |-> Workspace, rs |-> NoId, rule |-> NoId, arg |-> NoArg,
               ok |-> TRUE, ret |-> NoId, raised |-> FALSE, calls |-> <<>>, allOk |-> TRUE,
               out |-> "", wrote |-> FALSE, kids0 |-> EmptyFn, faulted |-> FALSE,
               again |-> FALSE, resumed |-> FALSE, dirty |-> FALSE]

\* copy_rule_out into an organization that may have no directory yet: the
\* rule is located first, then State(..., org_id=alt) is instantiated
CopyRuleOutAbsent(o, alt) ==
    /\ Clean(disk[o])
    /\ nextLocal < MaxCopyIds
    /\ \E rid \in RuleArgs(o), dst \in DOMAIN remote[alt] \cup {NoId}, postfix \in Postfixes :
          IF RulesetsOf(disk[o].kids, rid) = {}
          THEN Engine("copyRuleOut", o, dst, rid, Arg(<<>>, 0, 0, postfix),
                      Res(disk, stateFile, TRUE, NoId, FALSE))
          ELSE \E c \in CreateOrganization(disk, stateFile, remote, alt) :
                  Engine("copyRuleOut", o, dst, rid, Arg(<<>>, 0, 0, postfix),
                         CopyRuleOutOp(c.disk, c.sf, o, alt, rid, dst, postfix,
                                       LocalId(nextLocal + 1)))
    /\ nextLocal' = nextLocal + 1

NextLazy ==
    \/ CreateRuleset(Workspace)
    \/ CreateRule(Workspace)
    \/ UpdateTags(Workspace)
    \/ DeleteRule(Workspace)
    \/ CopyRuleOutAbsent(Workspace, Other)
    \/ Push(Workspace)

\* the lazy runs in which the other organization starts without a directory
SpecLazy == InitLazy /\ [][NextLazy]_vars

ProbeOps == {"probeRulesetName", "probeRuleName"}

Probing == last.op \in ProbeOps

\* the test of the while
NameOccurs(kids) ==
    IF last.op = "probeRulesetName" THEN RulesetNameOccurs(kids, last.arg.name)
    ELSE RuleNameOccurs(kids, last.arg.name)

\* create_ruleset or create_rule reaches its loop with the name and the
\* postfix it was called with
NameStart(o) ==
    /\ ~Probing
    /\ Clean(disk[o])
    /\ nextLocal < MaxLocal /\ edits < MaxEdits
    /\ \E op \in ProbeOps, name \in Names, postfix \in Postfixes, rs \in DOMAIN disk[o].kids :
          last' = Ran(op, o, IF op = "probeRuleName" THEN rs ELSE NoId, NoId,
                      Arg(name, 0, 0, postfix), TRUE, NoId, FALSE, <<>>, "", FALSE, EmptyFn)
    /\ UNCHANGED <<disk, stateFile, remote, nextLocal, nextRemote, edits, pool>>

\* one turn of the loop: the name occurs, the postfix (or ' - COPY') is added
NameStep(o) ==
    /\ Probing /\ last.org = o
    /\ NameOccurs(disk[o].kids)
    /\ last' = [last EXCEPT !.arg = Arg(AppendPostfix(last.arg.name, last.arg.postfix),
                                        last.arg.body, last.arg.tags, last.arg.postfix)]
    /\ UNCHANGED <<disk, stateFile, remote, nextLocal, nextRemote, edits, pool>>

\* the loop is left: the name does not occur, _create_ruleset or
\* _create_rule writes the entity under it
NameDone(o) ==
    /\ Probing /\ last.org = o
    /\ ~NameOccurs(disk[o].kids)
    /\ IF last.op = "probeRulesetName"
       THEN Engine("createRuleset", o, NoId, NoId, last.arg,
                   CreateRulesetDisk(disk, stateFile, o, RsJson(last.arg.name, <<>>),
                                     LocalId(nextLocal + 1)))
       ELSE \E body \in Bodies, tags \in TagVals :
               Engine("createRule", o, last.rs, NoId,
                      Arg(last.arg.name, body, tags, last.arg.postfix),
                      CreateRuleDisk(disk, stateFile, o, last.rs, RuleFile(last.arg.name, body),
                                     tags, LocalId(nextLocal + 1)))
    /\ nextLocal' = nextLocal + 1

NextNames ==
    \/ NameStart(Workspace)
    \/ NameStep(Workspace)
    \/ NameDone(Workspace)

\* the creating operations with their loop taken turn by turn; a loop under
\* way goes on, being the code of a single call
SpecNames ==
    Init /\ [][NextNames]_vars /\ WF_vars(NameStep(Workspace)) /\ WF_vars(NameDone(Workspace))

\* C40: the name loop of the creating operations ends, whatever the postfix,
\* the empty one included: every turn makes the name longer, and every loop
\* under way leads to the entity written under a name that did not occur
C40_NameLoopEnds ==
    /\ [][(Probing /\ Probing') => Len(last'.arg.name) > Len(last.arg.name)]_vars
    /\ [][(Probing /\ ~Probing') =>
             /\ ~NameOccurs(disk[Workspace].kids)
             /\ last'.arg.name = last.arg.name]_vars
    /\ Probing ~> ~Probing

\* a loop that was called without postfix took two turns, adding ' - COPY'
\* twice, and the ruleset stands under the name it reached
C40_Witness ==
    /\ last.op = "createRuleset"
    /\ last.arg.postfix = <<>>
    /\ last.arg.name = <<"a">> \o CopyPostfix \o CopyPostfix
    /\ RulesetNameOccurs(disk[Workspace].kids, last.arg.name)

====
